---- MODULE Spec2Model ----
(***************************************************************************)
(* Model of the real-estate ETL of etl.py and utility.py: the code         *)
(* registry, the deed validator/deduplicator, the neighborhood aggregator, *)
(* the parcel feature extractor, the census aggregator, the transaction    *)
(* join and the period generator of the splitter.                          *)
(*                                                                         *)
(* Raw field values are Python strings; they are modelled as sequences of  *)
(* one-character strings (<<"1","2">> is '12') so that int(), float(),     *)
(* split() and replace() can be computed as Python computes them.          *)
(* Each component has its own specification (SpecCodes, SpecDeeds, ...):   *)
(* main() runs the stages one after the other and a stage only reads the   *)
(* finished tables of the stages before it.                                *)
(***************************************************************************)
EXTENDS Integers, Sequences, FiniteSets, TLC

VARIABLES
    codes,          \* table_name -> set of rows of the code table
    codes_status,   \* table_name -> "reading" | "done" | "NotUnique" | "pdb"
    sale_amounts,   \* Deed.sale_amounts: <<apn, sale_date>> -> sale_amount (tenths)
    sale_date_day_0_converted_to_1,
    deed_counter,   \* read_deeds: counter['accumulated'], counter['skipped']
    deed_error_reasons, \* read_deeds: error_reasons, reason -> count
    deed_status,    \* "reading" | "done" | "ValueError"
    deeds,          \* the rows of table deeds
    deed_valid_seen,\* history: (apn, sale_date, sale_amount) of the rows read that pass all ten predicates
    deed_last,      \* history: the last row read, what the ten predicates say and what the code did
    parcel_count,   \* Neighborhood.parcel_count: census_tract -> kind -> count
    parcel_land_square_footage, \* Neighborhood: census_tract -> kind -> land area
    features,       \* Parcel.features: apn -> feature vector
    parcel_accumulated, \* Parcel.accumulated
    tax_counter,    \* read_taxrolls: n_retained, n_skipped
    tax_error_reasons,  \* read_taxrolls: error_reasons, reason -> count
    tax_status,     \* "reading" | "done" | the exception that aborted the run
    neighborhoods,  \* the rows of table neighborhoods
    parcels,        \* the rows of table parcels
    first_features, \* history: apn -> the feature vector first stored for it
    tax_last,       \* history: the last row read, what Parcel.accumulate alone does with it, whether it was stored
    census_features,    \* Census.features: census_tract -> features
    census_row_index,   \* read_census: the index of the next row of the file
    census_counter,     \* read_census: n_retained, n_skipped
    census_error_reasons,   \* read_census: error_reasons, reason -> count
    census_status,  \* "reading" | "done" | the exception that aborted the run
    census,         \* the rows of table census
    census_commuters,   \* history: census_tract -> the bucket counts of the row its features come from
    census_last,    \* history: the last tract record read and the tracts admissible so far
    config,         \* create_transactions: the configuration
    transactions,   \* the rows of table transactions
    trans_status,   \* "start" | "iterating" | "rows" | "done"
    generator,      \* next_year_month: started, year, month
    visited,        \* history: the periods the generator yielded, in order
    pending,        \* the keys of the rows of the current SELECT not yet fetched
    n_random,       \* the number of random.random() calls made
    all_n,          \* all_n_in_training, all_n_not_in_training
    draw_log,        \* history: <<key, draw>> of every row fetched in the split, in order
    standardize_status, \* create_standardize: "idle" | "done" | "OperationalError"
    transactions_standardizers, \* column_name -> the values summarize() read
    as_date_call,   \* the last call of u.as_date: what was written and what was returned
    argv,           \* argv[1:] of the last call of parse_invocation_arguments
    invocation      \* what that call returned or raised

codesVars == <<codes, codes_status>>

deedVars == <<sale_amounts, sale_date_day_0_converted_to_1, deed_counter,
              deed_error_reasons, deed_status, deeds, deed_valid_seen, deed_last>>

taxVars == <<parcel_count, parcel_land_square_footage, features, parcel_accumulated,
             tax_counter, tax_error_reasons, tax_status, neighborhoods, parcels,
             first_features, tax_last>>

censusVars == <<census_features, census_row_index, census_counter,
                census_error_reasons, census_status, census, census_commuters,
                census_last>>

transVars == <<config, transactions, trans_status, generator, visited, pending,
               n_random, all_n, draw_log>>

stdVars == <<standardize_status, transactions_standardizers>>

utilVars == <<as_date_call, argv, invocation>>

vars == <<codesVars, deedVars, taxVars, censusVars, transVars, stdVars, utilVars>>

(***************************************************************************)
(* Python string helpers                                                   *)
(***************************************************************************)
Digits == {"0", "1", "2", "3", "4", "5", "6", "7", "8", "9"}

DigitVal(c) ==
    CASE c = "0" -> 0 [] c = "1" -> 1 [] c = "2" -> 2 [] c = "3" -> 3
      [] c = "4" -> 4 [] c = "5" -> 5 [] c = "6" -> 6 [] c = "7" -> 7
      [] c = "8" -> 8 [] c = "9" -> 9

\* str.replace(c, '') for every c in chars
Remove(s, chars) == SelectSeq(s, LAMBDA c : c \notin chars)

RECURSIVE LStrip(_)
LStrip(s) == IF s # <<>> /\ Head(s) = " " THEN LStrip(Tail(s)) ELSE s

RECURSIVE RStrip(_)
RStrip(s) ==
    IF s # <<>> /\ s[Len(s)] = " " THEN RStrip(SubSeq(s, 1, Len(s) - 1)) ELSE s

PyStrip(s) == RStrip(LStrip(s))

\* s[a:b] of Python, 0-based, clipped to the string
PySlice(s, a, b) ==
    IF a >= Len(s) THEN <<>> ELSE SubSeq(s, a + 1, IF b > Len(s) THEN Len(s) ELSE b)

RECURSIVE DigitsVal(_)
DigitsVal(s) ==
    IF s = <<>> THEN 0
    ELSE IF s[Len(s)] = "_" THEN DigitsVal(SubSeq(s, 1, Len(s) - 1))
    ELSE 10 * DigitsVal(SubSeq(s, 1, Len(s) - 1)) + DigitVal(s[Len(s)])

\* the digit part of an int literal: digits, single underscores between digits
IsDigitBody(b) ==
    /\ b # <<>>
    /\ \A i \in 1..Len(b) : b[i] \in Digits \cup {"_"}
    /\ b[1] \in Digits
    /\ b[Len(b)] \in Digits
    /\ \A i \in 1..(Len(b) - 1) : ~(b[i] = "_" /\ b[i + 1] = "_")

\* an optionally signed literal whose digit part b passes ok and is worth mag
Signed(t, ok, mag) ==
    IF ok
    THEN [ok |-> TRUE, val |-> IF t # <<>> /\ Head(t) = "-" THEN 0 - mag ELSE mag]
    ELSE [ok |-> FALSE, val |-> 0]

Unsigned(t) == IF t # <<>> /\ Head(t) \in {"+", "-"} THEN Tail(t) ELSE t

PyIntBody(t, b) == Signed(t, IsDigitBody(b), DigitsVal(b))

\* int(s): [ok |-> FALSE] stands for ValueError
PyInt(s) == PyIntBody(PyStrip(s), Unsigned(PyStrip(s)))

\* the index of the first c in s, 0 when there is none
RECURSIVE IndexOf(_, _, _)
IndexOf(s, c, i) ==
    IF i > Len(s) THEN 0 ELSE IF s[i] = c THEN i ELSE IndexOf(s, c, i + 1)

\* s.split(sep) for a one-character sep
RECURSIVE PySplit(_, _)
PySplit(s, sep) ==
    LET i == IndexOf(s, sep, 1)
    IN  IF i = 0 THEN <<s>>
        ELSE <<SubSeq(s, 1, i - 1)>> \o PySplit(SubSeq(s, i + 1, Len(s)), sep)

AllDigits(b) == \A i \in 1..Len(b) : b[i] \in Digits

IntPart(b, dot) == IF dot = 0 THEN b ELSE SubSeq(b, 1, dot - 1)

FracPart(b, dot) == IF dot = 0 THEN <<>> ELSE SubSeq(b, dot + 1, Len(b))

PyFloatParts(t, ip, fp) ==
    Signed(t,
           AllDigits(ip) /\ AllDigits(fp) /\ (ip # <<>> \/ fp # <<>>),
           10 * DigitsVal(ip) + (IF fp = <<>> THEN 0 ELSE DigitVal(fp[1])))

PyFloatBody(t, b) ==
    PyFloatParts(t, IntPart(b, IndexOf(b, ".", 1)), FracPart(b, IndexOf(b, ".", 1)))

\* float(s) for decimal literals without exponent; the value is held in
\* tenths, exact for literals with at most one fractional digit (all the
\* literals the model feeds it).  [ok |-> FALSE] stands for ValueError.
PyFloat(s) == PyFloatBody(PyStrip(s), Unsigned(PyStrip(s)))

(***************************************************************************)
(* utility.py: dates and parcel identifiers                                *)
(***************************************************************************)
IsLeap(y) == (y % 4 = 0 /\ y % 100 # 0) \/ y % 400 = 0

DaysInMonth(y, m) ==
    IF m = 2 THEN (IF IsLeap(y) THEN 29 ELSE 28)
    ELSE IF m \in {4, 6, 9, 11} THEN 30 ELSE 31

NoDate == [ok |-> FALSE, year |-> 0, month |-> 0, day |-> 0]

\* datetime.date(year, month, day): NoDate stands for ValueError
PyDate(y, m, d) ==
    IF y >= 1 /\ y <= 9999 /\ m >= 1 /\ m <= 12 /\ d >= 1 /\ d <= DaysInMonth(y, m)
    THEN [ok |-> TRUE, year |-> y, month |-> m, day |-> d]
    ELSE NoDate

DateOf(year, month, day) ==
    IF year.ok /\ month.ok /\ day.ok
    THEN PyDate(year.val, month.val, day.val)
    ELSE NoDate

\* the day of the YYYY-MM-DD form: '00' is day 1
DashedDay(d) == IF d # <<"0", "0">> THEN PyInt(d) ELSE [ok |-> TRUE, val |-> 1]

\* the day of the YYYYMMDD form: a day that is not positive is day 1
PlainDay(day) == IF day.ok /\ day.val <= 0 THEN [ok |-> TRUE, val |-> 1] ELSE day

DashedDate(parts) ==
    IF Len(parts) # 3 THEN NoDate
    ELSE DateOf(PyInt(parts[1]), PyInt(parts[2]), DashedDay(parts[3]))

\* as_date with the day of the YYYYMMDD form taken from one character
as_date_short_day(s) ==
    IF IndexOf(s, "-", 1) # 0
    THEN DashedDate(PySplit(s, "-"))
    ELSE DateOf(PyInt(PySlice(s, 0, 4)), PyInt(PySlice(s, 4, 6)),
                PlainDay(PyInt(PySlice(s, 6, 7))))

as_date(s) ==
    IF IndexOf(s, "-", 1) # 0
    THEN DashedDate(PySplit(s, "-"))
    ELSE DateOf(PyInt(PySlice(s, 0, 4)), PyInt(PySlice(s, 4, 6)),
                PlainDay(PyInt(PySlice(s, 6, 8))))

\* The callers in etl.py take two results from u.as_date, the date and a
\* note that equals '0 to 1' when day 0 was converted to day 1.  The date
\* is the one as_date computes; the note is not produced by utility.py and
\* is modelled from the description of the audit counter.
as_date_note(s, date) ==
    IF ~date.ok THEN ""
    ELSE IF IndexOf(s, "-", 1) # 0
    THEN (IF PySplit(s, "-")[3] = <<"0", "0">> THEN "0 to 1" ELSE "")
    ELSE (IF PyInt(PySlice(s, 6, 8)).val > 0 THEN "" ELSE "0 to 1")

\* the written date s has a year and a month of the calendar and day 0
DayZeroFields(year, month, day) ==
    /\ year.ok /\ year.val >= 1 /\ year.val <= 9999
    /\ month.ok /\ month.val >= 1 /\ month.val <= 12
    /\ day.ok /\ day.val = 0

IsDayZeroDate(s) ==
    IF IndexOf(s, "-", 1) # 0
    THEN /\ Len(PySplit(s, "-")) = 3
         /\ DayZeroFields(PyInt(PySplit(s, "-")[1]), PyInt(PySplit(s, "-")[2]),
                          PyInt(PySplit(s, "-")[3]))
    ELSE DayZeroFields(PyInt(PySlice(s, 0, 4)), PyInt(PySlice(s, 4, 6)),
                       PyInt(PySlice(s, 6, 8)))

\* sale_date < other
DateBefore(a, b) ==
    \/ a.year < b.year
    \/ a.year = b.year /\ a.month < b.month
    \/ a.year = b.year /\ a.month = b.month /\ a.day < b.day

\* best_apn trying the formatted value before the unformatted one
BestOf_formatted_first(u, f, both_empty) ==
    IF f.ok THEN [kind |-> "value", val |-> f.val]
    ELSE IF u.ok THEN [kind |-> "value", val |-> u.val]
    ELSE IF both_empty THEN [kind |-> "ValueError", val |-> 0]
    ELSE [kind |-> "pdb", val |-> 0]

BestOf(u, f, both_empty) ==
    IF u.ok THEN [kind |-> "value", val |-> u.val]
    ELSE IF f.ok THEN [kind |-> "value", val |-> f.val]
    ELSE IF both_empty THEN [kind |-> "ValueError", val |-> 0]
    ELSE [kind |-> "pdb", val |-> 0]

\* best_apn: kind is "value", or "ValueError" (line 73), or "pdb" when the
\* breakpoint of line 76 is reached before ValueError is raised
best_apn(formatted, unformatted) ==
    BestOf(PyInt(Remove(unformatted, {" ", "_", "-"})),
           PyInt(Remove(formatted, {"-"})),
           formatted = <<>> /\ unformatted = <<>>)

\* the exception a caller of best_apn catches: lines 73 and 77 both raise a
\* bare ValueError
best_apn_raises(out) == IF out.kind = "value" THEN "" ELSE "ValueError"

(***************************************************************************)
(* Code Registry: lookup_code and read_codes                               *)
(***************************************************************************)
TableNames == {"codes_deeds", "codes_taxrolls"}

\* the reference rows a code file may hold (CODE TABLE, VALUE, DESCRIPTION)
CodeTables == {"DEEDC", "PROPN"}
CodeValues == {<<"G">>, <<"1", "0">>}
CodeDescriptions == {"GRANT DEED", "LIS PENDENS - NON CALIFORNIA"}

CodeRows == [code_table : CodeTables, value : CodeValues, description : CodeDescriptions]

\* rows the SELECT of lookup_code returns
MatchingRows(table, code_table, description) ==
    {r \in table : r.code_table = code_table /\ r.description = description}

\* lookup_code returning the value of some matching row when several match
lookup_code_any(table, code_table, description) ==
    LET rows == MatchingRows(table, code_table, description)
    IN  IF rows = {} THEN [kind |-> "NotFoundError", value |-> <<>>]
        ELSE [kind |-> "value", value |-> (CHOOSE r \in rows : TRUE).value]

lookup_code(table, code_table, description) ==
    LET rows == MatchingRows(table, code_table, description)
        n_rows == Cardinality(rows)
    IN  IF n_rows = 0 THEN [kind |-> "NotFoundError", value |-> <<>>]
        ELSE IF n_rows = 1
        THEN [kind |-> "value", value |-> (CHOOSE r \in rows : TRUE).value]
        ELSE [kind |-> "NotUnique", value |-> <<>>]

skip_code(table_name, row) ==
    /\ table_name = "codes_deeds"
    /\ row.code_table = "DEEDC"
    /\ row.description = "LIS PENDENS - NON CALIFORNIA"

\* the INSERT under PRIMARY KEY (code_table, value, description)
InsertViolatesPrimaryKey(table, row) == row \in table

\* one iteration of the reader loop of read_codes
read_codes_row(table_name, row) ==
    /\ codes_status[table_name] = "reading"
    /\ IF skip_code(table_name, row)
       THEN UNCHANGED codesVars
       ELSE IF ~InsertViolatesPrimaryKey(codes[table_name], row)
       THEN /\ codes' = [codes EXCEPT ![table_name] = @ \cup {row}]
            /\ UNCHANGED codes_status
       ELSE LET existing == lookup_code(codes[table_name], row.code_table, row.description)
            IN  /\ UNCHANGED codes
                /\ codes_status' =
                      [codes_status EXCEPT ![table_name] =
                          IF existing.kind # "value" THEN existing.kind
                          ELSE IF existing.value = row.value THEN "reading"
                          ELSE "pdb"]

\* the reader is exhausted and read_codes returns
read_codes_return(table_name) ==
    /\ codes_status[table_name] = "reading"
    /\ codes_status' = [codes_status EXCEPT ![table_name] = "done"]
    /\ UNCHANGED codes

CodesInit ==
    /\ codes = [t \in TableNames |-> {}]
    /\ codes_status = [t \in TableNames |-> "reading"]

(***************************************************************************)
(* Deed validator/deduplicator: class Deed and read_deeds                  *)
(***************************************************************************)
\* the configuration read by Deed.__init__
config_date_census_became_known == <<"2", "0", "0", "0", "-", "0", "6", "-", "0", "1">>
config_max_sale_amount == <<"5", "0", "0">>

date_census_became_known == as_date(config_date_census_became_known)
max_sale_amount == PyFloat(config_max_sale_amount).val

\* the codes Deed.__init__ looks up in codes_deeds
code_single_family_residence == <<"1", "0">>
code_grant_deed == <<"G">>
code_arms_length == <<"A">>
code_resale == <<"0", "0", "1">>
code_new_construction == <<"0", "0", "3">>
code_sale_full_price == <<"F">>

\* the InputError reasons of Deed.accumulate
DeedReasons ==
    {"not a single family residence", "deed not a grant deed",
     "deed not an arms-length transaction", "deed has multipe APNs",
     "TRANSACTION TYPE CODE not an int", "deed not resale nor new construction",
     "deed not full price", "invalid SALE DATE",
     "sale date before date census became known", "invalid APN",
     "invalid SALE AMOUNT", "SALE AMOUNT not positive",
     "SALE AMOUNT exceed maximum sale amount", "multiple deed sale amounts"}

DeedRaise(reason, day0) ==
    [kind |-> "InputError", reason |-> reason, day0 |-> day0,
     key |-> <<>>, sale_amount |-> 0]

\* the conversions Deed.accumulate applies to the fields of a row
DeedConversions(row) ==
    [multi_apn_count |-> PyInt(row.MULTI_APN_COUNT),
     ttc |-> PyInt(row.TRANSACTION_TYPE_CODE),
     sale_date |-> as_date(row.SALE_DATE),
     apn |-> best_apn(row.APN_FORMATTED, row.APN_UNFORMATTED),
     sale_amount |-> PyFloat(row.SALE_AMOUNT)]

\* lines 207-232 with every repeat of a key refused, whatever its amount
Deed_accumulate_no_repeat(c, day0, amounts) ==
    IF DateBefore(c.sale_date, date_census_became_known)
    THEN DeedRaise("sale date before date census became known", day0)
    ELSE IF c.apn.kind # "value"
    THEN DeedRaise("invalid APN", day0)
    ELSE IF ~c.sale_amount.ok
    THEN DeedRaise("invalid SALE AMOUNT", day0)
    ELSE IF c.sale_amount.val <= 0
    THEN DeedRaise("SALE AMOUNT not positive", day0)
    ELSE IF c.sale_amount.val > max_sale_amount
    THEN DeedRaise("SALE AMOUNT exceed maximum sale amount", day0)
    ELSE IF <<c.apn.val, c.sale_date>> \in DOMAIN amounts
    THEN DeedRaise("multiple deed sale amounts", day0)
    ELSE [kind |-> "accumulated", reason |-> "", day0 |-> day0,
          key |-> <<c.apn.val, c.sale_date>>, sale_amount |-> c.sale_amount.val]

\* lines 207-232 without the test of line 226: a second amount is accepted
Deed_accumulate_any_amount(c, day0, amounts) ==
    IF DateBefore(c.sale_date, date_census_became_known)
    THEN DeedRaise("sale date before date census became known", day0)
    ELSE IF c.apn.kind # "value"
    THEN DeedRaise("invalid APN", day0)
    ELSE IF ~c.sale_amount.ok
    THEN DeedRaise("invalid SALE AMOUNT", day0)
    ELSE IF c.sale_amount.val <= 0
    THEN DeedRaise("SALE AMOUNT not positive", day0)
    ELSE IF c.sale_amount.val > max_sale_amount
    THEN DeedRaise("SALE AMOUNT exceed maximum sale amount", day0)
    ELSE [kind |-> "accumulated", reason |-> "", day0 |-> day0,
          key |-> <<c.apn.val, c.sale_date>>, sale_amount |-> c.sale_amount.val]

\* lines 207-232, for a row whose sale date parsed
Deed_accumulate_features(c, day0, amounts) ==
    IF DateBefore(c.sale_date, date_census_became_known)
    THEN DeedRaise("sale date before date census became known", day0)
    ELSE IF c.apn.kind # "value"
    THEN DeedRaise("invalid APN", day0)
    ELSE IF ~c.sale_amount.ok
    THEN DeedRaise("invalid SALE AMOUNT", day0)
    ELSE IF c.sale_amount.val <= 0
    THEN DeedRaise("SALE AMOUNT not positive", day0)
    ELSE IF c.sale_amount.val > max_sale_amount
    THEN DeedRaise("SALE AMOUNT exceed maximum sale amount", day0)
    ELSE IF /\ <<c.apn.val, c.sale_date>> \in DOMAIN amounts
            /\ amounts[<<c.apn.val, c.sale_date>>] # c.sale_amount.val
    THEN DeedRaise("multiple deed sale amounts", day0)
    ELSE [kind |-> "accumulated", reason |-> "", day0 |-> day0,
          key |-> <<c.apn.val, c.sale_date>>, sale_amount |-> c.sale_amount.val]

\* lines 166-205, c being the conversions of the fields of row
Deed_accumulate_checks(row, c, amounts) ==
    IF row.PROPERTY_INDICATOR_CODE # code_single_family_residence
    THEN DeedRaise("not a single family residence", FALSE)
    ELSE IF row.DOCUMENT_TYPE_CODE # code_grant_deed
    THEN DeedRaise("deed not a grant deed", FALSE)
    ELSE IF row.PRI_CAT_CODE # code_arms_length
    THEN DeedRaise("deed not an arms-length transaction", FALSE)
    ELSE IF row.MULTI_APN_FLAG_CODE # <<>>
    THEN DeedRaise("deed has multipe APNs", FALSE)
    ELSE IF ~c.multi_apn_count.ok
    THEN [kind |-> "ValueError", reason |-> "", day0 |-> FALSE,
          key |-> <<>>, sale_amount |-> 0]
    ELSE IF c.multi_apn_count.val > 1
    THEN DeedRaise("deed has multipe APNs", FALSE)
    ELSE IF ~c.ttc.ok
    THEN DeedRaise("TRANSACTION TYPE CODE not an int", FALSE)
    ELSE IF c.ttc.val \notin {PyInt(code_resale).val, PyInt(code_new_construction).val}
    THEN DeedRaise("deed not resale nor new construction", FALSE)
    ELSE IF row.SALE_CODE # code_sale_full_price
    THEN DeedRaise("deed not full price", FALSE)
    ELSE IF ~c.sale_date.ok
    THEN DeedRaise("invalid SALE DATE", FALSE)
    ELSE Deed_accumulate_features(
             c, as_date_note(row.SALE_DATE, c.sale_date) = "0 to 1", amounts)

\* Deed.accumulate on row with the mapping amounts: what it raises or stores.
\* kind "ValueError" is the int() of line 176 failing outside any try.
Deed_accumulate(row, amounts) ==
    Deed_accumulate_checks(row, DeedConversions(row), amounts)

\* lines 225-232: the mapping after an accumulate that did not raise
DeedStore(amounts, key, sale_amount) ==
    IF key \in DOMAIN amounts THEN amounts
    ELSE [k \in DOMAIN amounts \cup {key} |->
             IF k = key THEN sale_amount ELSE amounts[k]]

\* Deed.create_table: one row of table deeds per key of the mapping
Deed_create_table(amounts) ==
    {[apn |-> k[1], sale_date |-> k[2], sale_year |-> k[2].year,
      sale_month |-> k[2].month, sale_day |-> k[2].day,
      sale_amount |-> amounts[k]] : k \in DOMAIN amounts}

(* The ten predicates of the validation chain, in order; 0 when a row     *)
(* passes them all, else the number of the first one it fails.  They feed *)
(* the history variables only.                                            *)
DeedPredicate(row, c, i) ==
    CASE i = 1 -> row.PROPERTY_INDICATOR_CODE = code_single_family_residence
      [] i = 2 -> row.DOCUMENT_TYPE_CODE = code_grant_deed
      [] i = 3 -> row.PRI_CAT_CODE = code_arms_length
      [] i = 4 -> /\ row.MULTI_APN_FLAG_CODE = <<>>
                  /\ c.multi_apn_count.ok
                  /\ c.multi_apn_count.val <= 1
      [] i = 5 -> /\ c.ttc.ok
                  /\ c.ttc.val \in {PyInt(code_resale).val,
                                    PyInt(code_new_construction).val}
      [] i = 6 -> row.SALE_CODE = code_sale_full_price
      [] i = 7 -> c.sale_date.ok
      [] i = 8 -> /\ c.sale_date.ok
                  /\ ~DateBefore(c.sale_date, date_census_became_known)
      [] i = 9 -> c.apn.kind = "value"
      [] i = 10 -> /\ c.sale_amount.ok
                   /\ c.sale_amount.val > 0
                   /\ c.sale_amount.val <= max_sale_amount

FailingPredicates(row, c) == {i \in 1..10 : ~DeedPredicate(row, c, i)}

Least(S) == CHOOSE i \in S : \A j \in S : i <= j

FirstFailingOf(S) == IF S = {} THEN 0 ELSE Least(S)

FirstFailing(row) == FirstFailingOf(FailingPredicates(row, DeedConversions(row)))

\* the predicate a tallied reason belongs to (11: the duplicate check)
ReasonPredicate(reason) ==
    CASE reason = "not a single family residence" -> 1
      [] reason = "deed not a grant deed" -> 2
      [] reason = "deed not an arms-length transaction" -> 3
      [] reason = "deed has multipe APNs" -> 4
      [] reason \in {"TRANSACTION TYPE CODE not an int",
                     "deed not resale nor new construction"} -> 5
      [] reason = "deed not full price" -> 6
      [] reason = "invalid SALE DATE" -> 7
      [] reason = "sale date before date census became known" -> 8
      [] reason = "invalid APN" -> 9
      [] reason \in {"invalid SALE AMOUNT", "SALE AMOUNT not positive",
                     "SALE AMOUNT exceed maximum sale amount"} -> 10
      [] reason = "multiple deed sale amounts" -> 11
      [] OTHER -> 0

\* rows of the deeds files: a valid row, variants of it that are valid too,
\* and the valid row with one or two fields replaced by a bad value
DeedBaseRow ==
    [PROPERTY_INDICATOR_CODE |-> <<"1", "0">>,
     DOCUMENT_TYPE_CODE |-> <<"G">>,
     PRI_CAT_CODE |-> <<"A">>,
     MULTI_APN_FLAG_CODE |-> <<>>,
     MULTI_APN_COUNT |-> <<"1">>,
     TRANSACTION_TYPE_CODE |-> <<"1">>,
     SALE_CODE |-> <<"F">>,
     SALE_DATE |-> <<"2", "0", "0", "1", "0", "1", "0", "5">>,
     APN_FORMATTED |-> <<>>,
     APN_UNFORMATTED |-> <<"1", "2", "3">>,
     SALE_AMOUNT |-> <<"1", "0", "0">>]

DeedValidRows ==
    {DeedBaseRow,
     [DeedBaseRow EXCEPT !.APN_FORMATTED = <<"1", "2", "-", "3">>,
                         !.APN_UNFORMATTED = <<>>,
                         !.SALE_DATE = <<"2", "0", "0", "1", "-", "0", "1", "-", "0", "5">>,
                         !.SALE_AMOUNT = <<"2", "0", "0">>],
     [DeedBaseRow EXCEPT !.SALE_AMOUNT = <<"1", "0", "0", ".", "0">>],
     [DeedBaseRow EXCEPT !.APN_UNFORMATTED = <<"4", "5">>,
                         !.SALE_DATE = <<"2", "0", "0", "1", "0", "2", "0", "0">>],
     [DeedBaseRow EXCEPT !.TRANSACTION_TYPE_CODE = <<"3">>,
                         !.APN_UNFORMATTED = <<"4", "_", "5">>],
     [DeedBaseRow EXCEPT !.SALE_DATE = <<"2", "0", "0", "1", "-", "0", "3", "-", "0", "0">>],
     [DeedBaseRow EXCEPT !.APN_FORMATTED = <<"1", "2", "3", "-", "4", "5", "6">>,
                         !.APN_UNFORMATTED = <<"1", "2", "3", "4", "5", "6">>],
     [DeedBaseRow EXCEPT !.APN_FORMATTED = <<"7", "-", "8">>,
                         !.APN_UNFORMATTED = <<"1", "2", " ", "3", "-", "4">>]}

DeedBadValues ==
    {<<"PROPERTY_INDICATOR_CODE", <<"1", "1">>>>,
     <<"DOCUMENT_TYPE_CODE", <<"T">>>>,
     <<"PRI_CAT_CODE", <<"B">>>>,
     <<"MULTI_APN_FLAG_CODE", <<"M">>>>,
     <<"MULTI_APN_COUNT", <<"2">>>>,
     <<"MULTI_APN_COUNT", <<>>>>,
     <<"TRANSACTION_TYPE_CODE", <<"x">>>>,
     <<"TRANSACTION_TYPE_CODE", <<"2">>>>,
     <<"SALE_CODE", <<"C">>>>,
     <<"SALE_DATE", <<"2", "0", "0", "1", "1", "3", "0", "5">>>>,
     <<"SALE_DATE", <<"1", "9", "9", "9", "0", "1", "0", "0">>>>,
     <<"SALE_DATE", <<>>>>,
     <<"SALE_DATE", <<"2", "0", "0", "1", "-", "0", "2", "-", "0">>>>,
     <<"APN_UNFORMATTED", <<"x", "y", "z">>>>,
     <<"APN_UNFORMATTED", <<>>>>,
     <<"APN_FORMATTED", <<"a", "b", "c">>>>,
     <<"SALE_AMOUNT", <<"x">>>>,
     <<"SALE_AMOUNT", <<"0">>>>,
     <<"SALE_AMOUNT", <<"9", "9", "9">>>>}

RawDeedRows ==
    DeedValidRows
    \cup {[DeedBaseRow EXCEPT ![b[1]] = b[2]] : b \in DeedBadValues}
    \cup {[DeedBaseRow EXCEPT ![b[1]] = b[2], ![c[1]] = c[2]] :
             <<b, c>> \in {p \in DeedBadValues \X DeedBadValues : p[1][1] # p[2][1]}}

MaxDeedRows == 2

NoApn == [kind |-> "none", val |-> 0]

NoDeedLast ==
    [first_failing |-> 0, kind |-> "none", reason |-> "", key |-> <<0, NoDate>>,
     sale_amount |-> 0, apn_formatted |-> <<>>, apn_unformatted |-> <<>>,
     apn |-> NoApn, apn_raised |-> "", day0_record |-> FALSE]

DeedInit ==
    /\ sale_amounts = [k \in {} |-> 0]
    /\ sale_date_day_0_converted_to_1 = 0
    /\ deed_counter = [accumulated |-> 0, skipped |-> 0]
    /\ deed_error_reasons = [r \in DeedReasons |-> 0]
    /\ deed_status = "reading"
    /\ deeds = {}
    /\ deed_valid_seen = {}
    /\ deed_last = NoDeedLast

\* the history of a row read: what the ten predicates say of it
DeedValidSeen(seen, row, c, first_failing) ==
    IF first_failing = 0
    THEN seen \cup {[apn |-> c.apn.val, sale_date |-> c.sale_date,
                     sale_amount |-> c.sale_amount.val]}
    ELSE seen

\* the history of the last row read: its key and amount when it passes the
\* ten predicates; what best_apn was given and what it returned or raised
\* when the row reached line 211 (it passed the first eight predicates)
DeedLast(row, out, c, first_failing) ==
    [first_failing |-> first_failing, kind |-> out.kind, reason |-> out.reason,
     key |-> IF first_failing = 0 THEN <<c.apn.val, c.sale_date>> ELSE <<0, NoDate>>,
     sale_amount |-> IF first_failing = 0 THEN c.sale_amount.val ELSE 0,
     apn_formatted |-> IF first_failing \in 1..8 THEN <<>> ELSE row.APN_FORMATTED,
     apn_unformatted |-> IF first_failing \in 1..8 THEN <<>> ELSE row.APN_UNFORMATTED,
     apn |-> IF first_failing \in 1..8 THEN NoApn ELSE c.apn,
     apn_raised |-> IF first_failing \in 1..8 THEN "" ELSE best_apn_raises(c.apn),
     day0_record |-> first_failing \notin 1..6 /\ IsDayZeroDate(row.SALE_DATE)]

\* one iteration of the reader loop of read_deeds, out being what
\* deed.accumulate(row) raises or stores; first_failing feeds the history
read_deeds_try(row, out, first_failing) ==
    /\ sale_date_day_0_converted_to_1' =
          sale_date_day_0_converted_to_1 + (IF out.day0 THEN 1 ELSE 0)
    /\ sale_amounts' =
          IF out.kind = "accumulated"
          THEN DeedStore(sale_amounts, out.key, out.sale_amount)
          ELSE sale_amounts
    /\ deed_counter' =
          CASE out.kind = "accumulated" ->
                  [deed_counter EXCEPT !.accumulated = @ + 1]
            [] out.kind = "InputError" ->
                  [deed_counter EXCEPT !.skipped = @ + 1]
            [] OTHER -> deed_counter
    /\ deed_error_reasons' =
          IF out.kind = "InputError"
          THEN [deed_error_reasons EXCEPT ![out.reason] = @ + 1]
          ELSE deed_error_reasons
    /\ deed_status' = IF out.kind = "ValueError" THEN "ValueError" ELSE "reading"
    /\ deed_last' = DeedLast(row, out, DeedConversions(row), first_failing)
    /\ deed_valid_seen' =
          DeedValidSeen(deed_valid_seen, row, DeedConversions(row), first_failing)
    /\ UNCHANGED deeds

read_deeds_row(row) ==
    /\ deed_status = "reading"
    /\ deed_counter.accumulated + deed_counter.skipped < MaxDeedRows
    /\ read_deeds_try(row, Deed_accumulate(row, sale_amounts), FirstFailing(row))

\* the files are exhausted: log_summary and create_table
read_deeds_create_table ==
    /\ deed_status = "reading"
    /\ deeds' = Deed_create_table(sale_amounts)
    /\ deed_status' = "done"
    /\ UNCHANGED <<sale_amounts, sale_date_day_0_converted_to_1, deed_counter,
                   deed_error_reasons, deed_valid_seen, deed_last>>

(***************************************************************************)
(* Neighborhood aggregator: class Neighborhood                             *)
(***************************************************************************)
\* the rows of table codes_taxrolls that Neighborhood.__init__ and
\* Parcel.__init__ look up: <<code_table, value, description>>
TaxrollCodeRows ==
    {<<"PROPN", <<"1", "0">>, "Single Family Residence / Townhouse">>,
     <<"PROPN", <<"1", "1">>, "Condominium (residential)">>,
     <<"PROPN", <<"2", "0">>, "Commercial">>,
     <<"PROPN", <<"2", "1">>, "Duplex, Triplex, Quadplex">>,
     <<"PROPN", <<"2", "2">>, "Apartment">>,
     <<"PROPN", <<"2", "3">>, "Hotel, Motel">>,
     <<"PROPN", <<"2", "4">>, "Commercial (condominium)">>,
     <<"PROPN", <<"2", "5">>, "Retail">>,
     <<"PROPN", <<"2", "6">>, "Service (general public)">>,
     <<"PROPN", <<"2", "7">>, "Office Building">>,
     <<"PROPN", <<"2", "8">>, "Warehouse">>,
     <<"PROPN", <<"2", "9">>, "Financial Institution">>,
     <<"PROPN", <<"3", "0">>, "Hospital (medical complex, clinic)">>,
     <<"PROPN", <<"3", "1">>, "Parking">>,
     <<"PROPN", <<"3", "2">>, "Amusement-Recreation">>,
     <<"PROPN", <<"5", "0">>, "Industrial">>,
     <<"PROPN", <<"5", "1">>, "Industrial Light">>,
     <<"PROPN", <<"5", "2">>, "Industrial Heavy">>,
     <<"PROPN", <<"5", "3">>, "Transport">>,
     <<"PROPN", <<"5", "4">>, "Utilities">>,
     <<"PROPN", <<"7", "0">>, "Agricultural">>,
     <<"PROPN", <<"8", "0">>, "Vacant">>,
     <<"PROPN", <<"9", "0">>, "Exempt">>,
     <<"PROPN", <<"0", "0">>, "Miscellaneous">>,
     <<"LUSEI", <<"6", "5", "0">>, "SCHOOL">>,
     <<"LUSEI", <<"6", "5", "2">>, "NURSERY SCHOOL">>,
     <<"LUSEI", <<"6", "5", "4">>, "HIGH SCHOOL">>,
     <<"LUSEI", <<"6", "5", "5">>, "PRIVATE SCHOOL">>,
     <<"LUSEI", <<"6", "5", "6">>, "VOCATIONAL/TRADE SCHOOL">>,
     <<"LUSEI", <<"6", "5", "7">>, "SECONDARY EDUCATIONAL SCHOOL">>,
     <<"LUSEI", <<"6", "5", "8">>, "PUBLIC SCHOOL">>,
     <<"LUSEI", <<"7", "5", "7">>, "PARK">>,
     <<"LUSEI", <<"9", "9", "9">>, "TYPE UNKNOWN">>}

codes_taxrolls ==
    {[code_table |-> r[1], value |-> r[2], description |-> r[3]] : r \in TaxrollCodeRows}

code_lusei(description) == PyInt(lookup_code(codes_taxrolls, "LUSEI", description).value).val

code_propn(description) == PyInt(lookup_code(codes_taxrolls, "PROPN", description).value).val

propn_skip == {0}

lusei_skip == {999}

propn_kind_description ==
    {<<"Single Family Residence / Townhouse", "residential">>,
     <<"Condominium (residential)", "residential">>,
     <<"Commercial", "commercial">>,
     <<"Duplex, Triplex, Quadplex", "residential">>,
     <<"Apartment", "residential">>,
     <<"Hotel, Motel", "commercial">>,
     <<"Commercial (condominium)", "commercial">>,
     <<"Retail", "commercial">>,
     <<"Service (general public)", "Service (general public)">>,
     <<"Office Building", "commercial">>,
     <<"Warehouse", "commercial">>,
     <<"Financial Institution", "commercial">>,
     <<"Hospital (medical complex, clinic)", "other">>,
     <<"Parking", "commercial">>,
     <<"Amusement-Recreation", "Amusement-Recreation">>,
     <<"Industrial", "industrial">>,
     <<"Industrial Light", "industrial">>,
     <<"Industrial Heavy", "industrial">>,
     <<"Transport", "other">>,
     <<"Utilities", "other">>,
     <<"Agricultural", "other">>,
     <<"Vacant", "other">>,
     <<"Exempt", "Exempt">>}

lusei_kind_description ==
    {<<"SCHOOL", "school">>,
     <<"NURSERY SCHOOL", "school">>,
     <<"HIGH SCHOOL", "school">>,
     <<"PRIVATE SCHOOL", "school">>,
     <<"VOCATIONAL/TRADE SCHOOL", "school">>,
     <<"SECONDARY EDUCATIONAL SCHOOL", "school">>,
     <<"PUBLIC SCHOOL", "school">>,
     <<"PARK", "park">>}

\* the dictionaries built by Neighborhood.__init__, code -> kind
KindsByCode(pairs) ==
    [c \in {p[1] : p \in pairs} |-> (CHOOSE p \in pairs : p[1] = c)[2]]

propn_kinds == KindsByCode({<<code_propn(d[1]), d[2]>> : d \in propn_kind_description})

lusei_kinds == KindsByCode({<<code_lusei(d[1]), d[2]>> : d \in lusei_kind_description})

\* self.lusei_kinds.get(lusei_code, 'not special')
LuseiKind(lusei_code) ==
    IF lusei_code \in DOMAIN lusei_kinds THEN lusei_kinds[lusei_code] ELSE "not special"

\* lines 439-464: the kind a parcel is counted under ("cannot happen" is
\* the breakpoint of line 464)
CountedKind(propn_kind, lusei_kind) ==
    CASE propn_kind = "residential" -> "residential"
      [] propn_kind = "commercial" -> "commercial"
      [] propn_kind = "Service (general public)" ->
            (IF lusei_kind = "school" THEN "school" ELSE "other")
      [] propn_kind = "industrial" -> "industrial"
      [] propn_kind = "Amusement-Recreation" ->
            (IF lusei_kind = "park" THEN "park" ELSE "other")
      [] propn_kind = "Exempt" ->
            (IF lusei_kind = "school" THEN "school" ELSE "other")
      [] propn_kind = "other" -> "other"
      [] OTHER -> "cannot happen"

\* the entry lines 413-421 give a census tract in parcel_count
NewParcelCount ==
    [residential |-> 0, commercial |-> 0, industrial |-> 0, other |-> 0,
     total |-> 0, school |-> 0, park |-> 0]

NbhdRaise(kind, reason, touched) ==
    [kind |-> kind, reason |-> reason, touched |-> touched, counted |-> "",
     land_square_footage |-> 0]

\* lines 423-464, the two codes and the land area being converted
Neighborhood_accumulate_checks(census_tract, propn_code, lusei_code, land) ==
    IF census_tract = <<>>
    THEN NbhdRaise("InputError", "missing census_tract", TRUE)
    ELSE IF propn_code \in propn_skip
    THEN NbhdRaise("InputError", "PROPN code is to be skipped", TRUE)
    ELSE IF lusei_code \in lusei_skip
    THEN NbhdRaise("InputError", "LUSEI code is to be skipped", TRUE)
    ELSE IF ~land.ok
    THEN NbhdRaise("pdb", "LAND SQUARE FOOTAGE not an int", TRUE)
    ELSE IF propn_code \notin DOMAIN propn_kinds
    THEN NbhdRaise("KeyError", "", TRUE)
    ELSE [kind |-> "counted", reason |-> "", touched |-> TRUE,
          counted |-> CountedKind(propn_kinds[propn_code], LuseiKind(lusei_code)),
          land_square_footage |-> land.val]

\* Neighborhood.accumulate on row: what it raises or counts.  touched says
\* whether line 412 was reached, which enters the census tract in
\* parcel_count; kind "pdb" is the breakpoint of line 434, after which
\* InputError is raised.
Neighborhood_accumulate_converted(row, propn, lusei) ==
    IF ~propn.ok \/ ~lusei.ok
    THEN NbhdRaise("ValueError", "", FALSE)
    ELSE Neighborhood_accumulate_checks(row.CENSUS_TRACT, propn.val, lusei.val,
                                        PyInt(row.LAND_SQUARE_FOOTAGE))

Neighborhood_accumulate(row) ==
    Neighborhood_accumulate_converted(row, PyInt(row.PROPERTY_INDICATOR_CODE),
                                      PyInt(row.UNIVERSAL_LAND_USE_CODE))

\* line 412-421
TouchParcelCount(pc, census_tract) ==
    IF census_tract \in DOMAIN pc THEN pc
    ELSE [t \in DOMAIN pc \cup {census_tract} |->
             IF t = census_tract THEN NewParcelCount ELSE pc[t]]

\* count() of lines 403-405 on parcel_count
CountParcel(pc, census_tract, kind) ==
    [pc EXCEPT ![census_tract][kind] = @ + 1]

\* a collections.Counter entry: 0 for a missing key
CounterGet(counter, k) == IF k \in DOMAIN counter THEN counter[k] ELSE 0

CounterAdd(counter, k, n) ==
    [j \in DOMAIN counter \cup {k} |-> CounterGet(counter, j) + (IF j = k THEN n ELSE 0)]

\* a collections.defaultdict(collections.Counter) entry
DefaultGet(dd, k) == IF k \in DOMAIN dd THEN dd[k] ELSE [j \in {} |-> 0]

\* count() of lines 403-405 on parcel_land_square_footage
CountLand(land, census_tract, kind, land_square_footage) ==
    [t \in DOMAIN land \cup {census_tract} |->
        IF t = census_tract
        THEN CounterAdd(DefaultGet(land, t), kind, land_square_footage)
        ELSE land[t]]

RECURSIVE SumOver(_, _)
SumOver(f, keys) ==
    IF keys = {} THEN 0
    ELSE LET k == CHOOSE k \in keys : TRUE
         IN  f[k] + SumOver(f, keys \ {k})

\* the sum of the values of a dictionary
SumValues(f) == SumOver(f, DOMAIN f)

\* Neighborhood.log_summary: reading parcel_land_square_footage[census_tract]
\* for every census tract of parcel_count enters the tract in the defaultdict
LandAfterLogSummary(pc, land) ==
    [t \in DOMAIN land \cup DOMAIN pc |-> DefaultGet(land, t)]

\* line 490 divides by a total of 0 when an area above 0 is printed
LogSummaryDividesByZero(pc, land) ==
    \E t \in DOMAIN pc :
        /\ SumValues(DefaultGet(land, t)) = 0
        /\ \E k \in DOMAIN DefaultGet(land, t) : land[t][k] > 0

\* fractions_land_square_footage.get(kind, 0.0)
LandGet(fractions, kind) == CounterGet(fractions, kind)

\* one row of table neighborhoods: each fraction is held as its numerator,
\* the denominator of all six being total
NeighborhoodRow(census_tract, fractions, total) ==
    [census_tract |-> census_tract,
     residential |-> LandGet(fractions, "residential"),
     commercial |-> LandGet(fractions, "commercial"),
     industrial |-> LandGet(fractions, "industrial"),
     schools |-> LandGet(fractions, "schools"),
     parks |-> LandGet(fractions, "parks"),
     other |-> LandGet(fractions, "other"),
     total |-> total]

\* Neighborhood.create_table
Neighborhood_create_table(land) ==
    {NeighborhoodRow(t, land[t], SumValues(land[t])) :
        t \in {t \in DOMAIN land : SumValues(land[t]) # 0}}

(***************************************************************************)
(* Parcel feature extractor: class Parcel                                  *)
(***************************************************************************)
propn_code_single_family_residential ==
    lookup_code(codes_taxrolls, "PROPN", "Single Family Residence / Townhouse").value

\* the fields Parcel.accumulate extracts with extract_positive_float and
\* extract_nonnegative_float, in the order of lines 602-612
ParcelFloatFields ==
    <<[field |-> "TOTAL_VALUE_CALCULATED", positive |-> TRUE,
       reason |-> "invalid TOTAL VALUE CALCULATED"],
      [field |-> "LAND_SQUARE_FOOTAGE", positive |-> TRUE,
       reason |-> "invalid LAND SQUARE FOOTAGE"],
      [field |-> "LIVING_SQUARE_FEET", positive |-> TRUE,
       reason |-> "invalid LIVING SQUARE FEET"],
      [field |-> "EFFECTIVE_YEAR_BUILT", positive |-> TRUE,
       reason |-> "invalid EFFECTIVE YEAR BUILT"],
      [field |-> "BEDROOMS", positive |-> TRUE, reason |-> "invalid BEDROOMS"],
      [field |-> "TOTAL_ROOMS", positive |-> TRUE, reason |-> "invalid TOTAL ROOMS"],
      [field |-> "TOTAL_BATHS", positive |-> TRUE, reason |-> "invalid TOTAL BATHS"],
      [field |-> "FIREPLACE_NUMBER", positive |-> FALSE,
       reason |-> "invalid FIREPLACE NUMBER"],
      [field |-> "PARKING_SPACES", positive |-> FALSE,
       reason |-> "invalid PARKING SPACES"],
      [field |-> "UNITS_NUMBER", positive |-> TRUE, reason |-> "invalid UNITS NUMBER"]>>

\* extract_positive_float and extract_nonnegative_float succeed on value
FloatExtracted(value, positive) ==
    value.ok /\ (IF positive THEN value.val > 0 ELSE value.val >= 0)

InvalidFloatFields(row) ==
    {i \in 1..Len(ParcelFloatFields) :
        ~FloatExtracted(PyFloat(row[ParcelFloatFields[i].field]),
                        ParcelFloatFields[i].positive)}

\* the feature vector of lines 621-635; the reals are held in tenths
ParcelFeatures(row) ==
    [census_tract |-> PyInt(row.CENSUS_TRACT).val,
     property_city |-> row.PROPERTY_CITY,
     total_value_calculated |-> PyFloat(row.TOTAL_VALUE_CALCULATED).val,
     land_square_footage |-> PyFloat(row.LAND_SQUARE_FOOTAGE).val,
     living_square_feet |-> PyFloat(row.LIVING_SQUARE_FEET).val,
     effective_year_built |-> PyFloat(row.EFFECTIVE_YEAR_BUILT).val,
     bedrooms |-> PyFloat(row.BEDROOMS).val,
     total_rooms |-> PyFloat(row.TOTAL_ROOMS).val,
     total_baths |-> PyFloat(row.TOTAL_BATHS).val,
     fireplace_number |-> PyFloat(row.FIREPLACE_NUMBER).val,
     parking_spaces |-> PyFloat(row.PARKING_SPACES).val,
     has_pool |-> IF row.POOL_FLAG = "Y" THEN 10 ELSE 0,
     units_number |-> PyFloat(row.UNITS_NUMBER).val]

NoFeatures == [census_tract |-> 0]

ParcelRaise(reason) ==
    [kind |-> "InputError", reason |-> reason, apn |-> 0, features |-> NoFeatures,
     duplicate |-> FALSE]

\* pdb.set_trace() followed by raise u.InputError(reason): the operator at
\* the breakpoint continues, or quits, which raises bdb.BdbQuit
ParcelBreakpoint(debugger, reason) ==
    IF debugger = "quit"
    THEN [kind |-> "BdbQuit", reason |-> "", apn |-> 0, features |-> NoFeatures,
          duplicate |-> FALSE]
    ELSE ParcelRaise(reason)

\* lines 614-636: the breakpoint of line 619 on a duplicate apn, then the store
Parcel_accumulate_store(row, apn, feats, debugger) ==
    IF apn \in DOMAIN feats /\ debugger = "quit"
    THEN [kind |-> "BdbQuit", reason |-> "", apn |-> 0, features |-> NoFeatures,
          duplicate |-> TRUE]
    ELSE [kind |-> "accumulated", reason |-> "", apn |-> apn,
          features |-> ParcelFeatures(row), duplicate |-> apn \in DOMAIN feats]

\* lines 584-612, apn being the outcome of u.best_apn and invalid the
\* indexes of the fields that do not extract
Parcel_accumulate_checks(row, apn, invalid, feats, debugger) ==
    IF apn.kind # "value"
    THEN ParcelBreakpoint(debugger, "invalid APN")
    ELSE IF ~PyInt(row.CENSUS_TRACT).ok
    THEN ParcelBreakpoint(debugger, "invalid census tract")
    ELSE IF row.PROPERTY_CITY = ""
    THEN ParcelRaise("invalid property_city")
    ELSE IF invalid # {}
    THEN ParcelRaise(ParcelFloatFields[CHOOSE i \in invalid :
                                          \A j \in invalid : i <= j].reason)
    ELSE Parcel_accumulate_store(row, apn.val, feats, debugger)

\* Parcel.accumulate on row with self.features = feats
Parcel_accumulate(row, feats, debugger) ==
    IF row.PROPERTY_INDICATOR_CODE # propn_code_single_family_residential
    THEN ParcelRaise("not single family residence")
    ELSE Parcel_accumulate_checks(row,
                                  best_apn(row.APN_FORMATTED, row.APN_UNFORMATTED),
                                  InvalidFloatFields(row), feats, debugger)

\* self.features[apn] = {...}
StoreFeatures(feats, apn, f) ==
    [a \in DOMAIN feats \cup {apn} |-> IF a = apn THEN f ELSE feats[a]]

DigitChar(n) == CHOOSE c \in Digits : DigitVal(c) = n

\* the decimal digits of a natural number
RECURSIVE NatToText(_)
NatToText(n) ==
    IF n < 10 THEN <<DigitChar(n)>> ELSE NatToText(n \div 10) \o <<DigitChar(n % 10)>>

\* the text SQLite stores when an integer is inserted in a text column
IntToText(n) == IF n < 0 THEN <<"-">> \o NatToText(-n) ELSE NatToText(n)

\* Parcel.create_tables: the rows of table parcels
Parcel_create_tables(feats) ==
    {[apn |-> a,
      census_tract |-> IntToText(feats[a].census_tract),
      property_city |-> feats[a].property_city,
      total_value_calculated |-> feats[a].total_value_calculated,
      land_square_footage |-> feats[a].land_square_footage,
      living_square_feet |-> feats[a].living_square_feet,
      effective_year_built |-> feats[a].effective_year_built,
      bedrooms |-> feats[a].bedrooms,
      total_rooms |-> feats[a].total_rooms,
      total_baths |-> feats[a].total_baths,
      fireplace_number |-> feats[a].fireplace_number,
      parking_spaces |-> feats[a].parking_spaces,
      has_pool |-> feats[a].has_pool,
      units_number |-> feats[a].units_number] : a \in DOMAIN feats}

(***************************************************************************)
(* read_taxrolls                                                           *)
(***************************************************************************)
TaxReasons ==
    {"missing census_tract", "PROPN code is to be skipped",
     "LUSEI code is to be skipped", "LAND SQUARE FOOTAGE not an int",
     "not single family residence", "invalid APN", "invalid census tract",
     "invalid property_city"}
    \cup {ParcelFloatFields[i].reason : i \in 1..Len(ParcelFloatFields)}

\* a single family residence that Neighborhood and Parcel both accept
TaxBaseRow ==
    [CENSUS_TRACT |-> <<"1", "0", "1", "1", "1", "0">>,
     PROPERTY_INDICATOR_CODE |-> <<"1", "0">>,
     UNIVERSAL_LAND_USE_CODE |-> <<"1", "6", "3">>,
     LAND_SQUARE_FOOTAGE |-> <<"5">>,
     APN_FORMATTED |-> <<>>,
     APN_UNFORMATTED |-> <<"1">>,
     PROPERTY_CITY |-> "LOS ANGELES",
     TOTAL_VALUE_CALCULATED |-> <<"9">>,
     LIVING_SQUARE_FEET |-> <<"2">>,
     EFFECTIVE_YEAR_BUILT |-> <<"1", "9", "9", "0">>,
     BEDROOMS |-> <<"3">>,
     TOTAL_ROOMS |-> <<"6">>,
     TOTAL_BATHS |-> <<"2">>,
     FIREPLACE_NUMBER |-> <<"0">>,
     PARKING_SPACES |-> <<"2">>,
     POOL_FLAG |-> "Y",
     UNITS_NUMBER |-> <<"1">>]

\* single family residences: other parcels, the same parcel again with
\* other features, and one field each that one of the two classes refuses
TaxFieldValues ==
    {<<"APN_UNFORMATTED", <<"2">>>>,
     <<"PROPERTY_CITY", "PASADENA">>,
     <<"POOL_FLAG", "N">>,
     <<"CENSUS_TRACT", <<"0", "1", "0", "2", "0", "0">>>>,
     <<"CENSUS_TRACT", <<>>>>,
     <<"CENSUS_TRACT", <<"1", "O", "1">>>>,
     <<"UNIVERSAL_LAND_USE_CODE", <<"9", "9", "9">>>>,
     <<"UNIVERSAL_LAND_USE_CODE", <<>>>>,
     <<"PROPERTY_INDICATOR_CODE", <<>>>>,
     <<"PROPERTY_INDICATOR_CODE", <<"9", "9">>>>,
     <<"LAND_SQUARE_FOOTAGE", <<"-", "5">>>>,
     <<"LAND_SQUARE_FOOTAGE", <<"x">>>>,
     <<"APN_UNFORMATTED", <<>>>>,
     <<"APN_UNFORMATTED", <<"x">>>>,
     <<"PROPERTY_CITY", "">>,
     <<"TOTAL_VALUE_CALCULATED", <<"0">>>>,
     <<"LIVING_SQUARE_FEET", <<"x">>>>,
     <<"EFFECTIVE_YEAR_BUILT", <<"0">>>>,
     <<"BEDROOMS", <<"0">>>>,
     <<"TOTAL_ROOMS", <<>>>>,
     <<"TOTAL_BATHS", <<"0">>>>,
     <<"FIREPLACE_NUMBER", <<"-", "1">>>>,
     <<"PARKING_SPACES", <<"x">>>>,
     <<"UNITS_NUMBER", <<"0">>>>}

\* the other kinds of parcel: <<PROPERTY INDICATOR CODE, UNIVERSAL LAND USE CODE>>
TaxLandUses ==
    {<<<<"2", "0">>, <<"2", "0", "0">>>>,
     <<<<"5", "0">>, <<"3", "0", "0">>>>,
     <<<<"2", "6">>, <<"6", "5", "0">>>>,
     <<<<"2", "6">>, <<"2", "0", "0">>>>,
     <<<<"3", "2">>, <<"7", "5", "7">>>>,
     <<<<"3", "2">>, <<"2", "0", "0">>>>,
     <<<<"9", "0">>, <<"6", "5", "8">>>>,
     <<<<"9", "0">>, <<"2", "0", "0">>>>,
     <<<<"8", "0">>, <<"4", "0", "0">>>>,
     <<<<"0", "0">>, <<"2", "0", "0">>>>}

TaxTracts == {<<"1", "0", "1", "1", "1", "0">>, <<"0", "1", "0", "2", "0", "0">>}

TaxLandAreas == {<<"5">>, <<"7">>}

RawTaxRows ==
    {TaxBaseRow}
    \cup {[TaxBaseRow EXCEPT ![v[1]] = v[2]] : v \in TaxFieldValues}
    \cup {[TaxBaseRow EXCEPT !.PROPERTY_INDICATOR_CODE = k[1],
                             !.UNIVERSAL_LAND_USE_CODE = k[2],
                             !.CENSUS_TRACT = t,
                             !.LAND_SQUARE_FOOTAGE = a] :
             k \in TaxLandUses, t \in TaxTracts, a \in TaxLandAreas}

\* what the operator does at a pdb.set_trace() breakpoint
Debugger == {"continue", "quit"}

\* the number of raw parcel records a run reads
MaxTaxRows == 3

NoTaxLast ==
    [kind |-> "none", neighborhood |-> "none", parcel |-> "none", stored |-> FALSE,
     duplicate |-> FALSE]

TaxInit ==
    /\ parcel_count = [t \in {} |-> NewParcelCount]
    /\ parcel_land_square_footage = [t \in {} |-> [k \in {} |-> 0]]
    /\ features = [a \in {} |-> NoFeatures]
    /\ parcel_accumulated = 0
    /\ tax_counter = [n_retained |-> 0, n_skipped |-> 0]
    /\ tax_error_reasons = [r \in TaxReasons |-> 0]
    /\ tax_status = "reading"
    /\ neighborhoods = {}
    /\ parcels = {}
    /\ first_features = [a \in {} |-> NoFeatures]
    /\ tax_last = NoTaxLast

\* neighborhood.accumulate(row) with the breakpoint of line 434 resolved
NeighborhoodOutcome(nb, debugger) ==
    IF nb.kind = "pdb"
    THEN [nb EXCEPT !.kind = IF debugger = "quit" THEN "BdbQuit" ELSE "InputError"]
    ELSE nb

\* the try block of lines 740-748: parcel.accumulate(row) is reached only
\* when neighborhood.accumulate(row) returned
TryOutcome(nb, pa) ==
    IF nb.kind = "counted"
    THEN [kind |-> pa.kind, reason |-> pa.reason]
    ELSE [kind |-> nb.kind, reason |-> nb.reason]

\* the effect on the state of one row: nb is the outcome of
\* neighborhood.accumulate, pa of parcel.accumulate, out of the try block
read_taxrolls_try(row, nb, pa, out) ==
    /\ parcel_count' =
          IF ~nb.touched THEN parcel_count
          ELSE IF nb.kind = "counted" /\ nb.counted # "cannot happen"
          THEN CountParcel(TouchParcelCount(parcel_count, row.CENSUS_TRACT),
                           row.CENSUS_TRACT, nb.counted)
          ELSE TouchParcelCount(parcel_count, row.CENSUS_TRACT)
    /\ parcel_land_square_footage' =
          IF nb.kind = "counted" /\ nb.counted # "cannot happen"
          THEN CountLand(parcel_land_square_footage, row.CENSUS_TRACT,
                         nb.counted, nb.land_square_footage)
          ELSE parcel_land_square_footage
    /\ features' =
          IF out.kind = "accumulated"
          THEN StoreFeatures(features, pa.apn, pa.features)
          ELSE features
    /\ first_features' =
          IF out.kind = "accumulated" /\ pa.apn \notin DOMAIN first_features
          THEN StoreFeatures(first_features, pa.apn, pa.features)
          ELSE first_features
    /\ parcel_accumulated' = parcel_accumulated + (IF out.kind = "accumulated" THEN 1 ELSE 0)
    /\ tax_counter' =
          CASE out.kind = "accumulated" -> [tax_counter EXCEPT !.n_retained = @ + 1]
            [] out.kind = "InputError" -> [tax_counter EXCEPT !.n_skipped = @ + 1]
            [] OTHER -> tax_counter
    /\ tax_error_reasons' =
          IF out.kind = "InputError"
          THEN [tax_error_reasons EXCEPT ![out.reason] = @ + 1]
          ELSE tax_error_reasons
    /\ tax_status' =
          IF out.kind \in {"accumulated", "InputError"} THEN "reading" ELSE out.kind
    /\ tax_last' = [kind |-> out.kind, neighborhood |-> nb.kind,
                    parcel |-> pa.kind, stored |-> out.kind = "accumulated",
                    duplicate |-> nb.kind = "counted" /\ pa.duplicate]
    /\ UNCHANGED <<neighborhoods, parcels>>

\* one iteration of the loop of lines 736-751
read_taxrolls_outcomes(row, nb, pa) ==
    read_taxrolls_try(row, nb, pa, TryOutcome(nb, pa))

read_taxrolls_row(row, debugger) ==
    /\ tax_status = "reading"
    /\ tax_counter.n_retained + tax_counter.n_skipped < MaxTaxRows
    /\ read_taxrolls_outcomes(row,
                              NeighborhoodOutcome(Neighborhood_accumulate(row), debugger),
                              Parcel_accumulate(row, features, debugger))

\* the files are exhausted (lines 755-767): neighborhood.log_summary(),
\* which raises ZeroDivisionError at line 490 and ends the run, or else
\* neighborhood.create_table() and parcel.create_tables()
read_taxrolls_create_tables ==
    /\ tax_status = "reading"
    /\ IF LogSummaryDividesByZero(parcel_count, parcel_land_square_footage)
       THEN /\ tax_status' = "ZeroDivisionError"
            /\ UNCHANGED <<parcel_land_square_footage, neighborhoods, parcels>>
       ELSE /\ tax_status' = "done"
            /\ parcel_land_square_footage' =
                  LandAfterLogSummary(parcel_count, parcel_land_square_footage)
            /\ neighborhoods' =
                  Neighborhood_create_table(
                      LandAfterLogSummary(parcel_count, parcel_land_square_footage))
            /\ parcels' = Parcel_create_tables(features)
    /\ UNCHANGED <<parcel_count, features, parcel_accumulated, tax_counter,
                   tax_error_reasons, first_features, tax_last>>

(***************************************************************************)
(* Census aggregator: class Census and read_census                         *)
(***************************************************************************)
\* self.mean_travel_times in the order of the dictionary: <<column, minutes>>,
\* the minutes in tenths
\* the table with the open-ended bucket held at its lower end, 90 minutes
mean_travel_times_90 ==
    <<<<"P031003", 25>>, <<"P031004", 70>>, <<"P031005", 120>>, <<"P031006", 170>>,
      <<"P031007", 220>>, <<"P031008", 270>>, <<"P031009", 320>>, <<"P031010", 370>>,
      <<"P031011", 420>>, <<"P031012", 470>>, <<"P031013", 725>>, <<"P031014", 900>>>>

mean_travel_times ==
    <<<<"P031003", 25>>, <<"P031004", 70>>, <<"P031005", 120>>, <<"P031006", 170>>,
      <<"P031007", 220>>, <<"P031008", 270>>, <<"P031009", 320>>, <<"P031010", 370>>,
      <<"P031011", 420>>, <<"P031012", 470>>, <<"P031013", 725>>, <<"P031014", 1100>>>>

Buckets == 1..Len(mean_travel_times)

\* int(row[column_name]) for every column of mean_travel_times
BucketCounts(row) == [i \in Buckets |-> PyInt(row[mean_travel_times[i][1]])]

\* the loop of lines 804-811 from bucket i on, for counts that all convert:
\* n is n_in_census_tract and ws is weighted_sum before the iteration
RECURSIVE CommuteLoop(_, _, _, _)
CommuteLoop(counts, i, n, ws) ==
    IF i > Len(mean_travel_times)
    THEN [n_in_census_tract |-> n, weighted_sum |-> ws]
    ELSE CommuteLoop(counts, i + 1, n + counts[i].val,
                     counts[i].val * mean_travel_times[i][2])

CensusRaise(kind, reason) ==
    [kind |-> kind, reason |-> reason, census_tract |-> <<>>,
     features |-> [mean_commute_time_minutes |-> [num |-> 0, den |-> 1],
                   median_household_income |-> 0,
                   fraction_owner_occupied |-> [num |-> 0, den |-> 1]]]

\* lines 812-844 with a tract without commuters given a mean of 0
Census_accumulate_features_no_commuters(census_tract, commute, income, total, owner) ==
    IF ~income.ok
    THEN CensusRaise("InputError", "non-float median household income")
    ELSE IF ~total.ok
    THEN CensusRaise("InputError", "non-float in total occupied")
    ELSE IF ~owner.ok
    THEN CensusRaise("InputError", "non-float in owner occupied")
    ELSE IF total.val = 0
    THEN CensusRaise("InputError", "zero residences occupied")
    ELSE [kind |-> "accumulated", reason |-> "", census_tract |-> census_tract,
          features |->
             [mean_commute_time_minutes |->
                 [num |-> IF commute.n_in_census_tract = 0 THEN 0
                          ELSE commute.weighted_sum,
                  den |-> IF commute.n_in_census_tract = 0 THEN 1
                          ELSE commute.n_in_census_tract],
              median_household_income |-> income.val,
              fraction_owner_occupied |-> [num |-> owner.val, den |-> total.val]]]

\* lines 815-844: a real that is a quotient is held as numerator and
\* denominator (the mean commute time in tenths of a minute), the other
\* reals in tenths
Census_accumulate_features(census_tract, commute, income, total, owner) ==
    IF commute.n_in_census_tract = 0
    THEN CensusRaise("InputError", "no commuters in census tract")
    ELSE IF ~income.ok
    THEN CensusRaise("InputError", "non-float median household income")
    ELSE IF ~total.ok
    THEN CensusRaise("InputError", "non-float in total occupied")
    ELSE IF ~owner.ok
    THEN CensusRaise("InputError", "non-float in owner occupied")
    ELSE IF total.val = 0
    THEN CensusRaise("InputError", "zero residences occupied")
    ELSE [kind |-> "accumulated", reason |-> "", census_tract |-> census_tract,
          features |->
             [mean_commute_time_minutes |->
                 [num |-> commute.weighted_sum, den |-> commute.n_in_census_tract],
              median_household_income |-> income.val,
              fraction_owner_occupied |-> [num |-> owner.val, den |-> total.val]]]

NonIntReason(i) ==
    CASE i = 1 -> "non-int P031003" [] i = 2 -> "non-int P031004"
      [] i = 3 -> "non-int P031005" [] i = 4 -> "non-int P031006"
      [] i = 5 -> "non-int P031007" [] i = 6 -> "non-int P031008"
      [] i = 7 -> "non-int P031009" [] i = 8 -> "non-int P031010"
      [] i = 9 -> "non-int P031011" [] i = 10 -> "non-int P031012"
      [] i = 11 -> "non-int P031013" [] OTHER -> "non-int P031014"

\* lines 793-811: the census tract, then the loop over the buckets, which
\* raises at the first count that does not convert
Census_accumulate_commute(row, census_tract, counts, non_int, debugger) ==
    IF Len(census_tract) # 6
    THEN CensusRaise(IF debugger = "quit" THEN "BdbQuit" ELSE "InputError",
                     IF debugger = "quit" THEN "" ELSE "invalid census tract")
    ELSE IF non_int # {}
    THEN CensusRaise("InputError",
                     NonIntReason(CHOOSE i \in non_int : \A j \in non_int : i <= j))
    ELSE Census_accumulate_features(census_tract, CommuteLoop(counts, 1, 0, 0),
                                    PyFloat(row.P053001), PyFloat(row.H007001),
                                    PyFloat(row.H007002))

Census_accumulate_counts(row, counts, debugger) ==
    Census_accumulate_commute(row, PySlice(row.GEO_ID2, 4, Len(row.GEO_ID2)), counts,
                              {i \in Buckets : ~counts[i].ok}, debugger)

\* Census.accumulate on row
Census_accumulate(row, debugger) ==
    Census_accumulate_counts(row, BucketCounts(row), debugger)

\* Census.create_table: the rows of table census
Census_create_table(feats) ==
    {[census_tract |-> t,
      mean_commute_time_minutes |-> feats[t].mean_commute_time_minutes,
      median_household_income |-> feats[t].median_household_income,
      fraction_owner_occupied |-> feats[t].fraction_owner_occupied] : t \in DOMAIN feats}

CensusReasons ==
    {"invalid census tract", "no commuters in census tract",
     "non-float median household income", "non-float in total occupied",
     "non-float in owner occupied", "zero residences occupied"}
    \cup {NonIntReason(i) : i \in Buckets}

\* a tract whose commuters all travel 90 minutes or more
CensusBaseRow ==
    [GEO_ID2 |-> <<"6", "0", "3", "7", "1", "0", "1", "1", "1", "0">>,
     P031003 |-> <<"0">>, P031004 |-> <<"0">>, P031005 |-> <<"0">>,
     P031006 |-> <<"0">>, P031007 |-> <<"0">>, P031008 |-> <<"0">>,
     P031009 |-> <<"0">>, P031010 |-> <<"0">>, P031011 |-> <<"0">>,
     P031012 |-> <<"0">>, P031013 |-> <<"0">>, P031014 |-> <<"3">>,
     P053001 |-> <<"4", "0", "0", "0", "0">>,
     H007001 |-> <<"4">>,
     H007002 |-> <<"3">>]

CensusGeoIds ==
    {<<"6", "0", "3", "7", "1", "0", "1", "1", "1", "0">>,
     <<"6", "0", "3", "7", "0", "1", "0", "2", "0", "0">>}

\* the commuters of a tract: the counts of the first, sixth and last bucket
CensusCommuters ==
    {<<<<"0">>, <<"0">>, <<"3">>>>,
     <<<<"2">>, <<"0">>, <<"0">>>>,
     <<<<"1">>, <<"2">>, <<"1">>>>,
     <<<<"0">>, <<"4">>, <<"2">>>>}

CensusGoodRows ==
    {[CensusBaseRow EXCEPT !.GEO_ID2 = g, !.P031003 = c[1], !.P031008 = c[2],
                           !.P031014 = c[3]] :
        g \in CensusGeoIds, c \in CensusCommuters}

\* one field each that Census.accumulate refuses
CensusFieldValues ==
    {<<"GEO_ID2", <<"6", "0", "3", "7", "1", "0", "1", "1">>>>,
     <<"P031014", <<>>>>,
     <<"P031005", <<"x">>>>,
     <<"P053001", <<"x">>>>,
     <<"H007001", <<"0">>>>,
     <<"H007001", <<>>>>,
     <<"H007002", <<"x">>>>}

RawCensusRows ==
    CensusGoodRows
    \cup {[r EXCEPT ![v[1]] = v[2]] : r \in CensusGoodRows, v \in CensusFieldValues}
    \cup {[CensusBaseRow EXCEPT !.P031014 = <<"0">>]}

\* the number of rows of the census file, the row of explanations included
MaxCensusRows == 3

\* the commuters of a row: their number and the sum over the buckets of
\* count times minutes (in tenths)
CommutersOf(counts) ==
    [last |-> counts[Len(mean_travel_times)].val,
     others_zero |-> \A i \in Buckets : i < Len(mean_travel_times) => counts[i].val = 0,
     n |-> SumOver([i \in Buckets |-> counts[i].val], Buckets),
     minutes |-> SumOver([i \in Buckets |-> counts[i].val * mean_travel_times[i][2]],
                         Buckets)]

\* the conditions under which a tract record is to give a census row
CensusAdmissible(row) ==
    /\ Len(row.GEO_ID2) - 4 = 6
    /\ \A i \in Buckets : PyInt(row[mean_travel_times[i][1]]).ok
    /\ SumOver([i \in Buckets |-> PyInt(row[mean_travel_times[i][1]]).val], Buckets) # 0
    /\ PyFloat(row.P053001).ok
    /\ PyFloat(row.H007001).ok
    /\ PyFloat(row.H007002).ok
    /\ PyFloat(row.H007001).val # 0

NoCensusLast == [kind |-> "none", reason |-> "", admissible |-> FALSE, admitted |-> {}]

\* the history of the last tract record read
CensusLast(row, out, admissible) ==
    [kind |-> out.kind, reason |-> out.reason, admissible |-> admissible,
     admitted |-> IF admissible
                  THEN census_last.admitted \cup {PySlice(row.GEO_ID2, 4, Len(row.GEO_ID2))}
                  ELSE census_last.admitted]

CensusInit ==
    /\ census_last = NoCensusLast
    /\ census_features = [t \in {} |-> 0]
    /\ census_row_index = 0
    /\ census_counter = [n_retained |-> 0, n_skipped |-> 0]
    /\ census_error_reasons = [r \in CensusReasons |-> 0]
    /\ census_status = "reading"
    /\ census = {}
    /\ census_commuters = [t \in {} |-> 0]

\* the try block of lines 890-895 on a row with outcome out
read_census_try(row, out) ==
    /\ census_features' =
          IF out.kind = "accumulated"
          THEN StoreFeatures(census_features, out.census_tract, out.features)
          ELSE census_features
    /\ census_commuters' =
          IF out.kind = "accumulated"
          THEN StoreFeatures(census_commuters, out.census_tract,
                             CommutersOf(BucketCounts(row)))
          ELSE census_commuters
    /\ census_counter' =
          CASE out.kind = "accumulated" -> [census_counter EXCEPT !.n_retained = @ + 1]
            [] out.kind = "InputError" -> [census_counter EXCEPT !.n_skipped = @ + 1]
            [] OTHER -> census_counter
    /\ census_error_reasons' =
          IF out.kind = "InputError"
          THEN [census_error_reasons EXCEPT ![out.reason] = @ + 1]
          ELSE census_error_reasons
    /\ census_status' =
          IF out.kind \in {"accumulated", "InputError"} THEN "reading" ELSE out.kind
    /\ census_last' = CensusLast(row, out, CensusAdmissible(row))

\* one iteration of the loop of lines 884-895: row 0 holds the explanations
\* of the column names and is skipped
read_census_row(row, debugger) ==
    /\ census_status = "reading"
    /\ census_row_index < MaxCensusRows
    /\ census_row_index' = census_row_index + 1
    /\ IF census_row_index = 0
       THEN UNCHANGED <<census_features, census_commuters, census_counter,
                        census_error_reasons, census_status, census_last>>
       ELSE read_census_try(row, Census_accumulate(row, debugger))
    /\ UNCHANGED census

\* the file is exhausted (lines 896-902): census.create_table()
read_census_create_table ==
    /\ census_status = "reading"
    /\ census' = Census_create_table(census_features)
    /\ census_status' = "done"
    /\ UNCHANGED <<census_features, census_row_index, census_counter,
                   census_error_reasons, census_commuters, census_last>>

(***************************************************************************)
(* create_transactions: the join and the split                             *)
(***************************************************************************)
\* one row of the SELECT of lines 944-976; a fraction of land is held as
\* numerator and denominator, in_training (line 1000) in tenths
JoinedRow(d, p, n, c) ==
    [apn |-> d.apn,
     sale_date |-> d.sale_date,
     sale_year |-> d.sale_year,
     sale_month |-> d.sale_month,
     sale_amount |-> d.sale_amount,
     census_tract |-> p.census_tract,
     property_city |-> p.property_city,
     total_value_calculated |-> p.total_value_calculated,
     land_square_footage |-> p.land_square_footage,
     living_square_feet |-> p.living_square_feet,
     effective_year_built |-> p.effective_year_built,
     bedrooms |-> p.bedrooms,
     total_rooms |-> p.total_rooms,
     total_baths |-> p.total_baths,
     fireplace_number |-> p.fireplace_number,
     parking_spaces |-> p.parking_spaces,
     has_pool |-> p.has_pool,
     units_number |-> p.units_number,
     census_tract_fraction_land_residential |-> [num |-> n.residential, den |-> n.total],
     census_tract_fractin_land_commercial |-> [num |-> n.commercial, den |-> n.total],
     census_tract_fraction_land_industrial |-> [num |-> n.industrial, den |-> n.total],
     census_tract_fraction_land_schools |-> [num |-> n.schools, den |-> n.total],
     census_tract_fraction_land_parks |-> [num |-> n.parks, den |-> n.total],
     census_tract_mean_commute_time_minutes |-> c.mean_commute_time_minutes,
     census_tract_median_household_income |-> c.median_household_income,
     census_tract_fraction_owner_occupied |-> c.fraction_owner_occupied,
     in_training |-> 0]

\* the columns the SELECT takes from table neighborhoods (lines 962-966)
NeighborhoodColumns ==
    {"census_tract_fraction_land_residential",
     "census_tract_fractin_land_commercial",
     "census_tract_fraction_land_industrial",
     "census_tract_fraction_land_schools",
     "census_tract_fraction_land_parks"}

\* NULL in a text column and in a real column: values no row of parcels,
\* neighborhoods or census holds; a NULL fraction has denominator 0
NullText == <<"N", "U", "L", "L">>

NullReal == -1

NullFraction == [num |-> 0, den |-> 0]

\* the rows of parcels, neighborhoods and census with every column NULL
NullParcel ==
    [census_tract |-> NullText, property_city |-> "NULL",
     total_value_calculated |-> NullReal, land_square_footage |-> NullReal,
     living_square_feet |-> NullReal, effective_year_built |-> NullReal,
     bedrooms |-> NullReal, total_rooms |-> NullReal, total_baths |-> NullReal,
     fireplace_number |-> NullReal, parking_spaces |-> NullReal,
     has_pool |-> NullReal, units_number |-> NullReal]

NullNeighborhood ==
    [residential |-> 0, commercial |-> 0, industrial |-> 0, schools |-> 0,
     parks |-> 0, total |-> 0]

NullCensus ==
    [mean_commute_time_minutes |-> NullFraction, median_household_income |-> NullReal,
     fraction_owner_occupied |-> NullFraction]

\* the rows that match, or the NULL row when there is none
OuterParcels(ps, apn) ==
    IF \E p \in ps : p.apn = apn THEN {p \in ps : p.apn = apn} ELSE {NullParcel}

OuterNeighborhoods(ns, census_tract) ==
    IF \E n \in ns : n.census_tract = census_tract
    THEN {n \in ns : n.census_tract = census_tract}
    ELSE {NullNeighborhood}

OuterCensus(cs, census_tract) ==
    IF \E c \in cs : c.census_tract = census_tract
    THEN {c \in cs : c.census_tract = census_tract}
    ELSE {NullCensus}

\* the SELECT with LEFT JOIN in place of INNER JOIN
left_joins(ds, ps, ns, cs) ==
    UNION {UNION {UNION {{JoinedRow(d, p, n, c) :
                            c \in OuterCensus(cs, p.census_tract)} :
                     n \in OuterNeighborhoods(ns, p.census_tract)} :
              p \in OuterParcels(ps, d.apn)} :
        d \in ds}

\* FROM deeds INNER JOIN parcels ON parcels.apn = deeds.apn
\* INNER JOIN neighborhoods ON neighborhoods.census_tract = parcels.census_tract
\* INNER JOIN census on census.census_tract = parcels.census_tract
inner_joins(ds, ps, ns, cs) ==
    UNION {UNION {UNION {{JoinedRow(d, p, n, c) :
                            c \in {c \in cs : c.census_tract = p.census_tract}} :
                     n \in {n \in ns : n.census_tract = p.census_tract}} :
              p \in {p \in ps : p.apn = d.apn}} :
        d \in ds}

\* the k-th value of random.random() after random.seed(seed), in tenths
RandomDraw(seed, k) == (seed + 7 * k) % 10

\* UPDATE transactions SET in_training = v WHERE apn = ? AND sale_date = ?
UpdateInTraining(t, key, v) ==
    {IF r.apn = key[1] /\ r.sale_date = key[2] THEN [r EXCEPT !.in_training = v] ELSE r :
        r \in t}

\* SELECT * FROM transactions where sale_year = %d and sale_month = %d
SelectPeriod(t, year, month) ==
    {<<r.apn, r.sale_date>> : r \in {r \in t : r.sale_year = year /\ r.sale_month = month}}

\* lines 1013-1017: the period after (year, month)
Advance(year, month) ==
    IF month = 12 THEN [year |-> year + 1, month |-> 1]
    ELSE [year |-> year, month |-> month + 1]

\* the configuration of the runs of the other stages
DefaultConfig ==
    [date_census_became_known |-> config_date_census_became_known,
     date_last_transaction |-> <<"2", "0", "0", "1", "-", "0", "2", "-", "2", "8">>,
     random_seed |-> 1,
     fraction_in_training |-> 8]

\* the configurations of the runs of create_transactions
Configs ==
    {[date_census_became_known |-> a, date_last_transaction |-> b,
      random_seed |-> seed, fraction_in_training |-> 8] :
        a \in {config_date_census_became_known,
               <<"2", "0", "0", "0", "-", "1", "1", "-", "1", "5">>},
        b \in {<<"2", "0", "0", "0", "-", "1", "1", "-", "3", "0">>,
               <<"2", "0", "0", "0", "-", "1", "2", "-", "3", "1">>,
               <<"2", "0", "0", "1", "0", "2", "2", "8">>},
        seed \in {1, 2}}

\* the tables the earlier stages may have left: deeds of parcel 1 and 2,
\* none before the census became known and one after the last transaction
JoinDeedKeys ==
    {<<1, PyDate(2000, 12, 5)>>, <<1, PyDate(2000, 12, 20)>>,
     <<2, PyDate(2000, 12, 5)>>, <<1, PyDate(2001, 3, 10)>>}

JoinDeeds == {Deed_create_table([k \in K |-> 1000]) : K \in SUBSET JoinDeedKeys}

JoinTracts == {TaxBaseRow.CENSUS_TRACT, <<"2", "0", "1", "1", "2", "0">>}

JoinParcelRow(apn) ==
    IF apn = 1 THEN TaxBaseRow
    ELSE [TaxBaseRow EXCEPT !.CENSUS_TRACT = <<"2", "0", "1", "1", "2", "0">>]

JoinParcels ==
    {Parcel_create_tables([a \in A |-> ParcelFeatures(JoinParcelRow(a))]) :
        A \in SUBSET {1, 2}}

JoinNeighborhoods ==
    {{NeighborhoodRow(t, [residential |-> 5, school |-> 5], 10) : t \in T} :
        T \in SUBSET JoinTracts}

JoinCensus ==
    {Census_create_table(
        [t \in T |-> Census_accumulate([CensusBaseRow EXCEPT !.GEO_ID2 =
                                            <<"6", "0", "3", "7">> \o t],
                                       "continue").features]) :
        T \in SUBSET JoinTracts}

\* the number of periods a run visits
MaxPeriods == 9

\* before create_transactions is called
TransIdle ==
    /\ transactions = {}
    /\ trans_status = "start"
    /\ generator = [started |-> FALSE, year |-> 0, month |-> 0]
    /\ visited = <<>>
    /\ pending = {}
    /\ n_random = 0
    /\ all_n = [in_training |-> 0, not_in_training |-> 0]
    /\ draw_log = <<>>

TransInit == config = DefaultConfig /\ TransIdle

\* lines 927-1000 and 1020-1022: the join, the column in_training, the seed
create_transactions_join ==
    /\ trans_status = "start"
    /\ transactions' = inner_joins(deeds, parcels, neighborhoods, census)
    /\ trans_status' = "iterating"
    /\ UNCHANGED <<config, generator, visited, pending, n_random, all_n, draw_log>>

\* the generator yields (year, month) to the loop of line 1023
Yield(year, month) ==
    /\ generator' = [started |-> TRUE, year |-> year, month |-> month]
    /\ visited' = Append(visited, <<year, month>>)
    /\ pending' = SelectPeriod(transactions, year, month)
    /\ trans_status' =
          IF SelectPeriod(transactions, year, month) = {} THEN "iterating" ELSE "rows"

\* the generator is resumed after (year, month), (last_year, last_month)
\* being the period of date_last_transaction: lines 1013-1018
Resume(next, last_date) ==
    IF next.year = last_date.year /\ next.month > last_date.month
    THEN /\ trans_status' = "done"
         /\ generator' = [generator EXCEPT !.year = next.year, !.month = next.month]
         /\ UNCHANGED <<visited, pending>>
    ELSE Yield(next.year, next.month)

\* the loop of line 1023 asks the generator for the next period
next_year_month ==
    /\ trans_status = "iterating"
    /\ Len(visited) < MaxPeriods
    /\ IF ~generator.started
       THEN Yield(as_date(config.date_census_became_known).year,
                  as_date(config.date_census_became_known).month)
       ELSE Resume(Advance(generator.year, generator.month),
                   as_date(config.date_last_transaction))
    /\ UNCHANGED <<config, transactions, n_random, all_n, draw_log>>

\* the body of the loop with random.seed(config['random_seed']) called
\* before every draw: each row consumes the first draw again
split_row_reseed(key, r) ==
    /\ transactions' =
          UpdateInTraining(transactions, key,
                           IF r < config.fraction_in_training THEN 10 ELSE 0)
    /\ all_n' =
          IF r < config.fraction_in_training
          THEN [all_n EXCEPT !.in_training = @ + 1]
          ELSE [all_n EXCEPT !.not_in_training = @ + 1]
    /\ n_random' = 0
    /\ draw_log' = Append(draw_log, <<key, r>>)
    /\ pending' = pending \ {key}
    /\ trans_status' = IF pending = {key} THEN "iterating" ELSE "rows"
    /\ UNCHANGED <<config, generator, visited>>

\* lines 1031-1048 for the row with key, r being the value of random.random()
split_row_draw(key, r) ==
    /\ transactions' =
          UpdateInTraining(transactions, key,
                           IF r < config.fraction_in_training THEN 10 ELSE 0)
    /\ all_n' =
          IF r < config.fraction_in_training
          THEN [all_n EXCEPT !.in_training = @ + 1]
          ELSE [all_n EXCEPT !.not_in_training = @ + 1]
    /\ n_random' = n_random + 1
    /\ draw_log' = Append(draw_log, <<key, r>>)
    /\ pending' = pending \ {key}
    /\ trans_status' = IF pending = {key} THEN "iterating" ELSE "rows"
    /\ UNCHANGED <<config, generator, visited>>

\* the SELECT of the current period returns its next row; the order of the
\* rows is not specified by the statement
split_row ==
    /\ trans_status = "rows"
    /\ \E key \in pending : split_row_draw(key, RandomDraw(config.random_seed, n_random + 1))

(***************************************************************************)
(* create_standardize                                                      *)
(***************************************************************************)
\* the columns of transactions whose type, as table_info reports it, is
\* 'REAL': the real columns of the SELECT of lines 944-976 (in_training is
\* declared 'real' by the ALTER TABLE of line 1000)
RealColumns ==
    {"sale_amount", "total_value_calculated", "land_square_footage",
     "living_square_feet", "effective_year_built", "bedrooms", "total_rooms",
     "total_baths", "fireplace_number", "parking_spaces", "has_pool",
     "units_number", "census_tract_fraction_land_residential",
     "census_tract_fractin_land_commercial",
     "census_tract_fraction_land_industrial",
     "census_tract_fraction_land_schools", "census_tract_fraction_land_parks",
     "census_tract_mean_commute_time_minutes",
     "census_tract_median_household_income",
     "census_tract_fraction_owner_occupied"}

\* summarize(column_name): mean, median and standard deviation are
\* functions of the values the SELECT of line 1068 returns; the model keeps
\* those values, by the key of their row
summarize(t, column_name) ==
    [k \in {<<r.apn, r.sale_date>> : r \in t} |->
        (CHOOSE r \in t : <<r.apn, r.sale_date>> = k)[column_name]]

StandardizeInit ==
    /\ standardize_status = "idle"
    /\ transactions_standardizers = [c \in {} |-> <<>>]

\* lines 1076-1107; over an empty table the statistics are nan and the
\* INSERT of line 1099 fails
create_standardize ==
    /\ standardize_status = "idle"
    /\ IF transactions = {}
       THEN /\ standardize_status' = "OperationalError"
            /\ UNCHANGED transactions_standardizers
       ELSE /\ standardize_status' = "done"
            /\ transactions_standardizers' =
                  [c \in RealColumns |-> summarize(transactions, c)]

(***************************************************************************)
(* utility.py applied to written dates (the cases of TestAsDate)           *)
(***************************************************************************)
\* the decimal digits of n, zero filled to width characters
RECURSIVE ZeroFill(_, _)
ZeroFill(text, width) ==
    IF Len(text) >= width THEN text ELSE ZeroFill(<<"0">> \o text, width)

\* a date written YYYY-MM-DD and YYYYMMDD
WrittenDashed(y, m, d) ==
    ZeroFill(NatToText(y), 4) \o <<"-">> \o ZeroFill(NatToText(m), 2)
        \o <<"-">> \o ZeroFill(NatToText(d), 2)

WrittenPlain(y, m, d) ==
    ZeroFill(NatToText(y), 4) \o ZeroFill(NatToText(m), 2) \o ZeroFill(NatToText(d), 2)

\* the fields of the dates written, valid or not, and strings that are no date
WrittenYears == {1, 999, 1900, 1994, 2000, 2001, 9999}

WrittenMonths == 0..13

WrittenDays == 0..32

WrittenTexts == {<<>>, <<"x">>, <<"2", "0", "0", "1">>, <<"2", "0", "0", "1", "-", "0", "2">>}

NoAsDateCall ==
    [kind |-> "none", year |-> 0, month |-> 0, day |-> 0, dashed |-> <<>>,
     plain |-> <<>>, from_dashed |-> NoDate, from_plain |-> NoDate]

\* a configuration value: its type and its text (an int in decimal digits, a
\* float in tenths)
ConfigValue(type, text) == [type |-> type, text |-> text]

\* the configuration files of the working directory: path -> json object
ConfigFiles ==
    (<<"c", "1">> :> (<<"a">> :> ConfigValue("int", <<"1", "2", "3">>)
                       @@ <<"b">> :> ConfigValue("float", <<"2", "3", "0">>)
                       @@ <<"c">> :> ConfigValue("str", <<"a", "b", "c">>)))
    @@ (<<"c", "2">> :> (<<"a">> :> ConfigValue("int", <<"7">>)
                          @@ <<"e">> :> ConfigValue("str", <<"x", "y">>)))

\* eval(value) in the scope of parse_invocation_arguments, for the values
\* the model feeds it: a name (the locals key and value are bound, the
\* other names fed are not), a difference of integer literals (a literal
\* with a leading zero is a syntax error), anything else a syntax error
LeadingZero(lit) == Len(lit) > 1 /\ Head(lit) = "0" /\ \E i \in 1..Len(lit) : lit[i] # "0"

RECURSIVE Difference(_, _)
Difference(parts, i) ==
    IF i = 1 THEN DigitsVal(parts[1])
    ELSE Difference(parts, i - 1) - DigitsVal(parts[i])

Letters == {"a", "b", "c", "d", "e", "k", "l", "u", "v", "x", "y", "z"}

PyEval(key, value) ==
    IF value # <<>> /\ \A i \in 1..Len(value) : value[i] \in Letters
    THEN (IF value = <<"k", "e", "y">>
          THEN [kind |-> "value", val |-> ConfigValue("str", key)]
          ELSE IF value = <<"v", "a", "l", "u", "e">>
          THEN [kind |-> "value", val |-> ConfigValue("str", value)]
          ELSE [kind |-> "NameError", val |-> ConfigValue("str", <<>>)])
    ELSE IF /\ Len(PySplit(value, "-")) >= 2
            /\ \A i \in 1..Len(PySplit(value, "-")) :
                  /\ PySplit(value, "-")[i] # <<>>
                  /\ AllDigits(PySplit(value, "-")[i])
    THEN (IF \E i \in 1..Len(PySplit(value, "-")) : LeadingZero(PySplit(value, "-")[i])
          THEN [kind |-> "SyntaxError", val |-> ConfigValue("str", <<>>)]
          ELSE [kind |-> "value",
                val |-> ConfigValue("int",
                           IntToText(Difference(PySplit(value, "-"),
                                                Len(PySplit(value, "-")))))])
    ELSE [kind |-> "SyntaxError", val |-> ConfigValue("str", <<>>)]

\* lines 103-118 with the eval of line 113 left out
parse_override_no_eval(key, value) ==
    IF PyInt(value).ok
    THEN [kind |-> "value", val |-> ConfigValue("int", IntToText(PyInt(value).val))]
    ELSE IF PyFloat(value).ok
    THEN [kind |-> "value", val |-> ConfigValue("float", IntToText(PyFloat(value).val))]
    ELSE [kind |-> "value", val |-> ConfigValue("str", value)]

\* lines 103-118: the value an override sets, or the exception of eval
parse_override(key, value) ==
    IF PyInt(value).ok
    THEN [kind |-> "value", val |-> ConfigValue("int", IntToText(PyInt(value).val))]
    ELSE IF PyFloat(value).ok
    THEN [kind |-> "value", val |-> ConfigValue("float", IntToText(PyFloat(value).val))]
    ELSE IF PyEval(key, value).kind = "NameError"
    THEN [kind |-> "value", val |-> ConfigValue("str", value)]
    ELSE PyEval(key, value)

\* overrides[key] = val
SetItem(d, key, val) == [k \in DOMAIN d \cup {key} |-> IF k = key THEN val ELSE d[k]]

NoMap == [k \in {} |-> ConfigValue("str", <<>>)]

\* the loop of line 93 from argument i on
RECURSIVE parse_arguments(_, _, _, _)
parse_arguments(args, i, overrides, maps) ==
    IF i > Len(args)
    THEN [kind |-> "returned", overrides |-> overrides, maps |-> maps]
    ELSE IF args[i] \in DOMAIN ConfigFiles
    THEN parse_arguments(args, i + 1, overrides, Append(maps, ConfigFiles[args[i]]))
    ELSE IF Len(PySplit(args[i], "=")) # 2
    THEN [kind |-> "SystemExit", overrides |-> overrides, maps |-> maps]
    ELSE IF parse_override(PySplit(args[i], "=")[1], PySplit(args[i], "=")[2]).kind
               # "value"
    THEN [kind |-> "SyntaxError", overrides |-> overrides, maps |-> maps]
    ELSE parse_arguments(
             args, i + 1,
             SetItem(overrides, PySplit(args[i], "=")[1],
                     parse_override(PySplit(args[i], "=")[1],
                                    PySplit(args[i], "=")[2]).val),
             maps)

\* parse_invocation_arguments(argv), args being argv[1:]
parse_invocation_arguments(args) == parse_arguments(args, 1, NoMap, <<>>)

\* collections.ChainMap(overrides, *maps): its keys and the value of a key,
\* which is that of the first mapping that holds it
ChainKeys(r) == DOMAIN r.overrides \cup UNION {DOMAIN r.maps[i] : i \in 1..Len(r.maps)}

ChainGet(r, key) ==
    IF key \in DOMAIN r.overrides THEN r.overrides[key]
    ELSE r.maps[CHOOSE i \in 1..Len(r.maps) :
                   /\ key \in DOMAIN r.maps[i]
                   /\ \A j \in 1..(i - 1) : key \notin DOMAIN r.maps[j]][key]

\* the arguments of the calls: the two configuration files, overrides, and
\* arguments that are neither
InvocationArguments ==
    {<<"c", "1">>,
     <<"c", "2">>,
     <<"a", "=", "1">>,
     <<"b", "=", "1", "7", ".", "0">>,
     <<"c", "=", "x", "y", "z">>,
     <<"x", "x", "x", "=", "9", "9", "9">>,
     <<"a", "=", "2", "0", "0", "0", "-", "1", "1", "-", "1", "5">>,
     <<"d", "=", "2", "0", "0", "0", "-", "0", "6", "-", "0", "1">>,
     <<"c", "=", "k", "e", "y">>,
     <<"e", "=">>,
     <<"a", "=", "b", "=", "c">>,
     <<"x", "y", "z">>}

\* the number of arguments after argv[0]
MaxArguments == 3

NoInvocation == [kind |-> "none", overrides |-> NoMap, maps |-> <<>>]

UtilityInit ==
    /\ as_date_call = NoAsDateCall
    /\ argv = <<>>
    /\ invocation = NoInvocation

(***************************************************************************)
(* Specifications, one per stage.  main() runs the stages in sequence;     *)
(* while one stage is checked the state of the others is held fixed.       *)
(***************************************************************************)
\* the state of the stages other than the one that runs
notCodes == <<deedVars, taxVars, censusVars, transVars, stdVars, utilVars>>

notDeeds == <<codesVars, taxVars, censusVars, transVars, stdVars, utilVars>>

notTaxrolls == <<codesVars, deedVars, censusVars, transVars, stdVars, utilVars>>

notCensus == <<codesVars, deedVars, taxVars, transVars, stdVars, utilVars>>

\* create_transactions reads the tables and leaves them as they are
notTransactions == <<codesVars, deedVars, taxVars, censusVars, stdVars, utilVars>>

ReadCodesRow ==
    /\ \E t \in TableNames, row \in CodeRows : read_codes_row(t, row)
    /\ UNCHANGED notCodes

ReadCodesReturn ==
    /\ \E t \in TableNames : read_codes_return(t)
    /\ UNCHANGED notCodes

NextCodes == ReadCodesRow \/ ReadCodesReturn

InitCodes == CodesInit /\ DeedInit /\ TaxInit /\ CensusInit /\ TransInit /\ StandardizeInit
       /\ UtilityInit

SpecCodes == InitCodes /\ [][NextCodes]_vars

ReadDeedsRow ==
    /\ \E row \in RawDeedRows : read_deeds_row(row)
    /\ UNCHANGED notDeeds

ReadDeedsCreateTable ==
    /\ read_deeds_create_table
    /\ UNCHANGED notDeeds

NextDeeds == ReadDeedsRow \/ ReadDeedsCreateTable

InitDeeds == CodesInit /\ DeedInit /\ TaxInit /\ CensusInit /\ TransInit /\ StandardizeInit
       /\ UtilityInit

SpecDeeds == InitDeeds /\ [][NextDeeds]_vars

ReadTaxrollsRow ==
    /\ \E row \in RawTaxRows, debugger \in Debugger : read_taxrolls_row(row, debugger)
    /\ UNCHANGED notTaxrolls

ReadTaxrollsCreateTables ==
    /\ read_taxrolls_create_tables
    /\ UNCHANGED notTaxrolls

NextTaxrolls == ReadTaxrollsRow \/ ReadTaxrollsCreateTables

InitTaxrolls == CodesInit /\ DeedInit /\ TaxInit /\ CensusInit /\ TransInit /\ StandardizeInit
       /\ UtilityInit

SpecTaxrolls == InitTaxrolls /\ [][NextTaxrolls]_vars

ReadCensusRow ==
    /\ \E row \in RawCensusRows, debugger \in Debugger : read_census_row(row, debugger)
    /\ UNCHANGED notCensus

ReadCensusCreateTable ==
    /\ read_census_create_table
    /\ UNCHANGED notCensus

NextCensus == ReadCensusRow \/ ReadCensusCreateTable

InitCensus == CodesInit /\ DeedInit /\ TaxInit /\ CensusInit /\ TransInit /\ StandardizeInit
       /\ UtilityInit

SpecCensus == InitCensus /\ [][NextCensus]_vars

\* the earlier stages have returned: their objects are gone and their
\* tables are in the data base
StagesReturned ==
    /\ codes = [t \in TableNames |-> {}]
    /\ codes_status = [t \in TableNames |-> "done"]
    /\ sale_amounts = [k \in {} |-> 0]
    /\ sale_date_day_0_converted_to_1 = 0
    /\ deed_counter = [accumulated |-> 0, skipped |-> 0]
    /\ deed_error_reasons = [r \in DeedReasons |-> 0]
    /\ deed_status = "done"
    /\ deeds \in JoinDeeds
    /\ deed_valid_seen = {}
    /\ deed_last = NoDeedLast
    /\ parcel_count = [t \in {} |-> NewParcelCount]
    /\ parcel_land_square_footage = [t \in {} |-> [k \in {} |-> 0]]
    /\ features = [a \in {} |-> NoFeatures]
    /\ parcel_accumulated = 0
    /\ tax_counter = [n_retained |-> 0, n_skipped |-> 0]
    /\ tax_error_reasons = [r \in TaxReasons |-> 0]
    /\ tax_status = "done"
    /\ neighborhoods \in JoinNeighborhoods
    /\ parcels \in JoinParcels
    /\ first_features = [a \in {} |-> NoFeatures]
    /\ tax_last = NoTaxLast
    /\ census_features = [t \in {} |-> 0]
    /\ census_row_index = 0
    /\ census_counter = [n_retained |-> 0, n_skipped |-> 0]
    /\ census_error_reasons = [r \in CensusReasons |-> 0]
    /\ census_status = "done"
    /\ census \in JoinCensus
    /\ census_commuters = [t \in {} |-> 0]
    /\ census_last = NoCensusLast

CreateTransactionsJoin ==
    /\ create_transactions_join
    /\ UNCHANGED notTransactions

NextYearMonth ==
    /\ next_year_month
    /\ UNCHANGED notTransactions

SplitRow ==
    /\ split_row
    /\ UNCHANGED notTransactions

NextTransactions == CreateTransactionsJoin \/ NextYearMonth \/ SplitRow

InitTransactions ==
    /\ StagesReturned
    /\ config \in {c \in Configs :
                     ~DateBefore(as_date(c.date_last_transaction),
                                 as_date(c.date_census_became_known))}
    /\ TransIdle
    /\ StandardizeInit
    /\ UtilityInit

SpecTransactions == InitTransactions /\ [][NextTransactions]_vars

(***************************************************************************)
(* main: the stages in sequence, each called when the one before it has    *)
(* returned (lines 1122-1128); an exception in a stage ends the run.       *)
(***************************************************************************)
\* create_transactions called one line early, before read_census
called_create_transactions_early == tax_status = "done"

called_read_codes_taxrolls == codes_status["codes_deeds"] = "done"

called_read_deeds == \A t \in TableNames : codes_status[t] = "done"

called_read_taxrolls == deed_status = "done"

called_read_census == tax_status = "done"

called_create_transactions == census_status = "done"

called_create_standardize == trans_status = "done"

\* the inputs of the runs of main: a code row, and records that join
\* (parcel 1 of tract 101110 sold in July 2000) next to records refused
MainCodeRows == {[code_table |-> "DEEDC", value |-> <<"G">>, description |-> "GRANT DEED"]}

MainDeedRows ==
    {[DeedBaseRow EXCEPT !.APN_UNFORMATTED = <<"1">>,
                         !.SALE_DATE = <<"2", "0", "0", "0", "0", "7", "0", "5">>],
     [DeedBaseRow EXCEPT !.DOCUMENT_TYPE_CODE = <<"T">>]}

MainTaxRows == {TaxBaseRow, [TaxBaseRow EXCEPT !.CENSUS_TRACT = <<>>]}

MainCensusRows == {CensusBaseRow, [CensusBaseRow EXCEPT !.P031014 = <<"0">>]}

MainConfig ==
    [DefaultConfig EXCEPT !.date_last_transaction =
                              <<"2", "0", "0", "0", "-", "0", "8", "-", "3", "1">>]

MainReadCodes ==
    /\ \E t \in TableNames :
          /\ t = "codes_taxrolls" => called_read_codes_taxrolls
          /\ \/ \E row \in MainCodeRows : read_codes_row(t, row)
             \/ read_codes_return(t)
    /\ UNCHANGED notCodes

MainReadDeeds ==
    /\ called_read_deeds
    /\ \/ \E row \in MainDeedRows : read_deeds_row(row)
       \/ read_deeds_create_table
    /\ UNCHANGED notDeeds

MainReadTaxrolls ==
    /\ called_read_taxrolls
    /\ \/ \E row \in MainTaxRows, debugger \in Debugger : read_taxrolls_row(row, debugger)
       \/ read_taxrolls_create_tables
    /\ UNCHANGED notTaxrolls

MainReadCensus ==
    /\ called_read_census
    /\ \/ \E row \in MainCensusRows, debugger \in Debugger : read_census_row(row, debugger)
       \/ read_census_create_table
    /\ UNCHANGED notCensus

MainCreateTransactions ==
    /\ called_create_transactions
    /\ create_transactions_join \/ next_year_month \/ split_row
    /\ UNCHANGED notTransactions

MainCreateStandardize ==
    /\ called_create_standardize
    /\ create_standardize
    /\ UNCHANGED <<codesVars, deedVars, taxVars, censusVars, transVars, utilVars>>

NextMain ==
    \/ MainReadCodes
    \/ MainReadDeeds
    \/ MainReadTaxrolls
    \/ MainReadCensus
    \/ MainCreateTransactions
    \/ MainCreateStandardize

InitMain ==
    /\ CodesInit
    /\ DeedInit
    /\ TaxInit
    /\ CensusInit
    /\ config = MainConfig
    /\ TransIdle
    /\ StandardizeInit
    /\ UtilityInit

SpecMain == InitMain /\ [][NextMain]_vars

\* as_date on the two written forms of one date, one call a run
AsDateOfDate ==
    /\ as_date_call.kind = "none"
    /\ \E y \in WrittenYears, m \in WrittenMonths, d \in WrittenDays :
          as_date_call' =
             [kind |-> "date", year |-> y, month |-> m, day |-> d,
              dashed |-> WrittenDashed(y, m, d), plain |-> WrittenPlain(y, m, d),
              from_dashed |-> as_date(WrittenDashed(y, m, d)),
              from_plain |-> as_date(WrittenPlain(y, m, d))]
    /\ UNCHANGED <<codesVars, deedVars, taxVars, censusVars, transVars, stdVars,
                   argv, invocation>>

\* as_date on a string that is no date
AsDateOfText ==
    /\ as_date_call.kind = "none"
    /\ \E s \in WrittenTexts :
          as_date_call' =
             [kind |-> "text", year |-> 0, month |-> 0, day |-> 0,
              dashed |-> s, plain |-> s,
              from_dashed |-> as_date(s), from_plain |-> as_date(s)]
    /\ UNCHANGED <<codesVars, deedVars, taxVars, censusVars, transVars, stdVars,
                   argv, invocation>>

NextDates == AsDateOfDate \/ AsDateOfText

InitDates ==
    /\ CodesInit
    /\ DeedInit
    /\ TaxInit
    /\ CensusInit
    /\ TransInit
    /\ StandardizeInit
    /\ UtilityInit

SpecDates == InitDates /\ [][NextDates]_vars

\* one call of parse_invocation_arguments a run
ParseInvocationArguments ==
    /\ invocation.kind = "none"
    /\ \E n \in 0..MaxArguments : \E args \in [1..n -> InvocationArguments] :
          /\ argv' = args
          /\ invocation' = parse_invocation_arguments(args)
    /\ UNCHANGED <<codesVars, deedVars, taxVars, censusVars, transVars, stdVars,
                   as_date_call>>

NextInvocation == ParseInvocationArguments

InitInvocation ==
    /\ CodesInit
    /\ DeedInit
    /\ TaxInit
    /\ CensusInit
    /\ TransInit
    /\ StandardizeInit
    /\ UtilityInit

SpecInvocation == InitInvocation /\ [][NextInvocation]_vars

(***************************************************************************)
(* Claims about the Code Registry                                          *)
(***************************************************************************)
\* C6: registering (code_table, value2, description) when (code_table,
\* value1, description) with value1 # value2 is registered does not add the
\* entry, so no table ever maps a (code_table, description) to two values.
C6_NoTwoValuesForDescription ==
    \A t \in TableNames : \A r1, r2 \in codes[t] :
        (r1.code_table = r2.code_table /\ r1.description = r2.description)
            => r1.value = r2.value

\* C15: lookup_code returns v iff exactly one row of the table has the
\* (code_table, description) and its value is v; it raises NotFoundError iff
\* no row matches and NotUnique iff more than one does.
C15_LookupOutcomes ==
    \A t \in TableNames, ct \in CodeTables, d \in CodeDescriptions :
        /\ lookup_code(codes[t], ct, d).kind = "value"
              <=> Cardinality({r \in codes[t] : r.code_table = ct /\ r.description = d}) = 1
        /\ lookup_code(codes[t], ct, d).kind = "value"
              => \E r \in codes[t] :
                    /\ r.code_table = ct
                    /\ r.description = d
                    /\ r.value = lookup_code(codes[t], ct, d).value
        /\ lookup_code(codes[t], ct, d).kind = "NotFoundError"
              <=> ~\E r \in codes[t] : r.code_table = ct /\ r.description = d
        /\ lookup_code(codes[t], ct, d).kind = "NotUnique"
              <=> Cardinality({r \in codes[t] : r.code_table = ct /\ r.description = d}) > 1

\* C15 witness: a table is read in which one (code_table, description) has
\* two rows, another has one and a third has none.
C15_Witness ==
    \E t \in TableNames :
        /\ codes_status[t] = "done"
        /\ \E ct1, ct2, ct3 \in CodeTables, d1, d2, d3 \in CodeDescriptions :
              /\ lookup_code(codes[t], ct1, d1).kind = "NotUnique"
              /\ lookup_code(codes[t], ct2, d2).kind = "value"
              /\ lookup_code(codes[t], ct3, d3).kind = "NotFoundError"

\* C17: best_apn returns the integer of the unformatted string with space,
\* '_' and '-' removed whenever that parses, whatever the formatted string
\* is; only when it does not parse does it return the integer of the
\* formatted string with '-' removed.
C17_UnformattedPreferred ==
    /\ deed_last.apn.kind # "none" =>
          /\ PyInt(Remove(deed_last.apn_unformatted, {" ", "_", "-"})).ok
                => deed_last.apn =
                      [kind |-> "value",
                       val |-> PyInt(Remove(deed_last.apn_unformatted, {" ", "_", "-"})).val]
          /\ (/\ ~PyInt(Remove(deed_last.apn_unformatted, {" ", "_", "-"})).ok
              /\ PyInt(Remove(deed_last.apn_formatted, {"-"})).ok)
                => deed_last.apn =
                      [kind |-> "value",
                       val |-> PyInt(Remove(deed_last.apn_formatted, {"-"})).val]
    /\ (/\ deed_last.apn_formatted = <<"1", "2", "3", "-", "4", "5", "6">>
        /\ deed_last.apn_unformatted = <<"1", "2", "3", "4", "5", "6">>)
          => deed_last.apn.val = 123456
    /\ (/\ deed_last.apn_formatted = <<"7", "-", "8">>
        /\ deed_last.apn_unformatted = <<"1", "2", " ", "3", "-", "4">>)
          => deed_last.apn.val = 1234

\* C17 witness: best_apn was given two strings that both parse, to
\* different integers, and returned the one of the unformatted string.
C17_Witness ==
    /\ deed_last.apn_formatted = <<"7", "-", "8">>
    /\ deed_last.apn_unformatted = <<"1", "2", " ", "3", "-", "4">>
    /\ deed_last.apn = [kind |-> "value", val |-> 1234]
    /\ deed_last.kind = "accumulated"

\* C24: registering an entry that exactly duplicates an entry of the registry
\* raises no error, does not stop the build and leaves the registry as it
\* was, also when the (code_table, description) of the entry was registered
\* before with another value.  In read_codes only the INSERT of an exact
\* duplicate reaches the handler of lines 112-121, the one place where a
\* table leaves "reading" before its file is exhausted.
C24_DuplicateIsIgnored ==
    [][\A t \in TableNames :
          codes_status[t] = "reading"
             => /\ codes_status'[t] \in {"reading", "done"}
                /\ codes[t] \subseteq codes'[t]]_vars

(***************************************************************************)
(* Claims about the deed validator/deduplicator                            *)
(***************************************************************************)
\* two rows read that pass all ten predicates, with one key and two amounts
ConflictingKeys ==
    {<<v.apn, v.sale_date>> : v \in
        {v \in deed_valid_seen : \E w \in deed_valid_seen :
            /\ w.apn = v.apn
            /\ w.sale_date = v.sale_date
            /\ w.sale_amount # v.sale_amount}}

\* C1: when two rows that pass all validation predicates share (parcel_id,
\* sale_date) and carry different sale amounts, table deeds holds no row
\* for that key.
C1_ConflictingKeyHasNoRow ==
    deed_status = "done" =>
        \A k \in ConflictingKeys : \A d \in deeds :
            ~(d.apn = k[1] /\ d.sale_date = k[2])

\* C3: a row is accumulated iff it passes all ten predicates, and a row
\* that fails some is tallied under the reason of the first one it fails.
C3_ValidationChain ==
    deed_last.kind # "none" =>
        /\ (deed_last.kind = "accumulated") <=> (deed_last.first_failing = 0)
        /\ deed_last.first_failing # 0 =>
              /\ deed_last.kind = "InputError"
              /\ ReasonPredicate(deed_last.reason) = deed_last.first_failing

\* C8: whatever the fields of a row hold, reading it ends in acceptance or
\* in a tallied rejection; no row aborts the run.
C8_NoRowAbortsTheRun ==
    /\ deed_status \in {"reading", "done"}
    /\ deed_last.kind \in {"none", "accumulated", "InputError"}

\* C13: when every row read that passes the ten predicates for a key
\* carries one sale amount, table deeds holds exactly one row for the key,
\* with that amount, and no such row is tallied as a rejection.
C13_RepeatsYieldOneRow ==
    /\ deed_status = "done" =>
          \A v \in deed_valid_seen :
              <<v.apn, v.sale_date>> \notin ConflictingKeys =>
                  /\ Cardinality({d \in deeds : d.apn = v.apn /\ d.sale_date = v.sale_date}) = 1
                  /\ \A d \in deeds :
                        (d.apn = v.apn /\ d.sale_date = v.sale_date)
                            => d.sale_amount = v.sale_amount
    /\ (deed_last.kind # "none" /\ deed_last.first_failing = 0
            /\ deed_last.key \notin ConflictingKeys)
          => deed_last.kind = "accumulated"

\* C13 witness: two rows that pass the ten predicates were read and
\* accepted, and table deeds holds the one row of their key.
C13_Witness ==
    /\ deed_status = "done"
    /\ deed_counter.accumulated = 2
    /\ Cardinality(deeds) = 1
    /\ ConflictingKeys = {}

\* C14: a call to accumulate changes no amount the mapping holds; a row
\* that passes the ten predicates with another amount than the one held
\* for its key is rejected as 'multiple deed sale amounts' and leaves the
\* mapping as it was.
C14_NeverOverwrites ==
    [][/\ \A k \in DOMAIN sale_amounts :
             k \in DOMAIN sale_amounts' /\ sale_amounts'[k] = sale_amounts[k]
       /\ (/\ deed_counter' # deed_counter \/ deed_status' = "ValueError"
           /\ deed_last'.first_failing = 0
           /\ deed_last'.key \in DOMAIN sale_amounts
           /\ sale_amounts[deed_last'.key] # deed_last'.sale_amount)
          => /\ deed_last'.kind = "InputError"
             /\ deed_last'.reason = "multiple deed sale amounts"
             /\ sale_amounts' = sale_amounts]_vars

\* C14 witness: a row with a second amount for a key the mapping holds was
\* rejected, and the mapping holds the first amount.
C14_Witness ==
    /\ deed_last.reason = "multiple deed sale amounts"
    /\ deed_last.key \in DOMAIN sale_amounts
    /\ sale_amounts[deed_last.key] # deed_last.sale_amount

\* C20: a deed record that passes predicates 1-6 and whose sale date has day
\* 0, with a valid year and month, is not rejected for its date and goes on
\* with day 1 of that month; the counter sale_date_day_0_converted_to_1
\* grows by one for each such record and for no other.
C20_DayZeroConverted ==
    [][(deed_counter' # deed_counter \/ deed_status' = "ValueError")
          => /\ sale_date_day_0_converted_to_1' =
                   sale_date_day_0_converted_to_1
                       + (IF deed_last'.day0_record THEN 1 ELSE 0)
             /\ deed_last'.day0_record
                   => /\ deed_last'.reason # "invalid SALE DATE"
                      /\ deed_last'.first_failing = 0 => deed_last'.key[2].day = 1]_vars

\* C16: when best_apn fails, a caller can tell the failure on two empty
\* inputs from the failure on unparseable inputs: of two successive records
\* that fail the one way and the other, the conditions raised differ.
C16_FailuresDistinguishable ==
    [][(/\ deed_last.apn.kind \in {"ValueError", "pdb"}
        /\ deed_last'.apn.kind \in {"ValueError", "pdb"}
        /\ (deed_last.apn_formatted = <<>> /\ deed_last.apn_unformatted = <<>>)
              # (deed_last'.apn_formatted = <<>> /\ deed_last'.apn_unformatted = <<>>))
          => deed_last.apn_raised # deed_last'.apn_raised]_vars

(***************************************************************************)
(* Claims about the neighborhood aggregator and the parcel extractor       *)
(***************************************************************************)
\* C4: for every row of table neighborhoods the six fractions sum to 1:
\* the six numerators sum to the total land area accumulated for the tract.
C4_FractionsSumToOne ==
    \A r \in neighborhoods :
        r.residential + r.commercial + r.industrial + r.schools + r.parks + r.other
            = r.total

\* C7: accepting a record whose apn is already in the feature map stops the
\* run, and the feature map never holds a later record in place of the
\* one first stored for the apn.
C7_DuplicateParcelStopsTheRun ==
    /\ tax_last.duplicate => tax_status \notin {"reading", "done"}
    /\ \A apn \in DOMAIN features : features[apn] = first_features[apn]

\* C9: a raw parcel record that Neighborhood.accumulate accepted or rejected
\* is stored in the feature map iff Parcel.accumulate by itself accepts it.
C9_ParcelStoredByOwnChecks ==
    tax_last.neighborhood \in {"counted", "InputError"} =>
        (tax_last.stored <=> tax_last.parcel = "accumulated")

\* C23: when the taxroll files are exhausted, a census tract whose land area
\* summed over all kinds is zero (a tract all of whose records were refused
\* included) has no row in table neighborhoods, and every tract whose total
\* is not zero has exactly one row.
C23_ZeroAreaTractsDropped ==
    [][(tax_status = "reading" /\ tax_status' \in {"done", "ZeroDivisionError"})
          => \A t \in DOMAIN parcel_count :
                Cardinality({n \in neighborhoods' : n.census_tract = t})
                   = IF SumValues(DefaultGet(parcel_land_square_footage, t)) = 0
                     THEN 0 ELSE 1]_vars

(***************************************************************************)
(* Claims about the census aggregator                                      *)
(***************************************************************************)
\* C5: for every accepted census tract record the stored mean commute time
\* times the number of commuters equals the sum over every bucket of the
\* bucket count times the minutes of the bucket.
C5_MeanCommuteIsWeightedAverage ==
    \A t \in DOMAIN census_features :
        census_features[t].mean_commute_time_minutes.num * census_commuters[t].n
            = census_commuters[t].minutes
                * census_features[t].mean_commute_time_minutes.den

\* C21: a tract record gives a census row iff its tract code has length 6,
\* every bucket count is an integer, the commuters are not zero, the median
\* income and both counts of housing units are numbers and the occupied units
\* are not zero; a record refused for zero commuters or zero occupied units
\* raises InputError, is tallied, and leaves the feature map as it was.
C21_CensusAdmission ==
    /\ [](/\ census_last.kind # "none"
             => (census_last.kind = "accumulated" <=> census_last.admissible)
          /\ census_status = "done"
             => {r.census_tract : r \in census} = census_last.admitted)
    /\ [][(/\ census_row_index' # census_row_index
           /\ census_last'.reason \in {"no commuters in census tract",
                                       "zero residences occupied"})
             => /\ census_last'.kind = "InputError"
                /\ census_status' = "reading"
                /\ census_features' = census_features
                /\ census_counter'.n_skipped = census_counter.n_skipped + 1]_vars

\* C21 witness: the file held a record without commuters or without occupied
\* units next to an admissible one, and table census has been written.
C21_Witness ==
    /\ census_status = "done"
    /\ census # {}
    /\ census_error_reasons["no commuters in census tract"]
          + census_error_reasons["zero residences occupied"] > 0

\* C22: an accepted tract record whose commuters are all in the bucket '90
\* minutes or more' has a stored mean commute time of 110.0.
C22_OpenEndedBucket ==
    \A t \in DOMAIN census_features :
        (census_commuters[t].others_zero /\ census_commuters[t].last > 0)
            => census_features[t].mean_commute_time_minutes.num
                  = 1100 * census_features[t].mean_commute_time_minutes.den

\* C22 witness: table census holds a tract all of whose commuters are in
\* the last bucket.
C22_Witness ==
    /\ census_status = "done"
    /\ \E t \in DOMAIN census_features :
          /\ census_commuters[t].others_zero
          /\ census_commuters[t].last = 3
          /\ \E r \in census : r.census_tract = t

StartPeriod ==
    <<as_date(config.date_census_became_known).year,
      as_date(config.date_census_became_known).month>>

LastPeriod ==
    <<as_date(config.date_last_transaction).year,
      as_date(config.date_last_transaction).month>>

\* C10: the periods visited start at the period of the census-became-known
\* date, each next one is the following calendar month, none is after the
\* period of the last-transaction date, and when the split is done the
\* last one visited is the period of the last-transaction date.
C10_PeriodRange ==
    /\ visited # <<>> => visited[1] = StartPeriod
    /\ \A i \in 1..(Len(visited) - 1) :
          visited[i + 1] =
             (IF visited[i][2] = 12 THEN <<visited[i][1] + 1, 1>>
              ELSE <<visited[i][1], visited[i][2] + 1>>)
    /\ \A i \in 1..Len(visited) :
          \/ visited[i][1] < LastPeriod[1]
          \/ visited[i][1] = LastPeriod[1] /\ visited[i][2] <= LastPeriod[2]
    /\ trans_status = "done" => visited # <<>> /\ visited[Len(visited)] = LastPeriod

\* the months from the generator's period to that of date_last_transaction
MonthsLeft(g) == (LastPeriod[1] * 12 + LastPeriod[2]) - (g.year * 12 + g.month)

\* C27: for every pair of configured dates with the census-became-known
\* date not after the last-transaction date, December included, the split
\* finishes after finitely many periods: every period the generator yields
\* is not after that of the last-transaction date and is nearer to it than
\* the one before, and every row of a period is drawn once and is done with.
C27_SplitTerminates ==
    [][/\ (generator' # generator /\ trans_status' # "done")
            => /\ MonthsLeft(generator') >= 0
               /\ generator.started => MonthsLeft(generator') < MonthsLeft(generator)
       /\ (generator' = generator /\ pending' # pending)
            => pending' \subseteq pending /\ pending' # pending]_vars

\* the draws the split made for the row with key, in order
DrawsOf(key) ==
    [i \in 1..Cardinality({j \in 1..Len(draw_log) : draw_log[j][1] = key}) |->
        draw_log[CHOOSE j \in 1..Len(draw_log) :
                    /\ draw_log[j][1] = key
                    /\ Cardinality({h \in 1..j : draw_log[h][1] = key}) = i][2]]

\* C11: after the split every row of table transactions has received
\* exactly one random draw, and its in_training is 1 iff that draw is less
\* than fraction_in_training, else 0.
C11_EveryRowDrawnOnce ==
    trans_status = "done" =>
        \A t \in transactions :
            /\ Len(DrawsOf(<<t.apn, t.sale_date>>)) = 1
            /\ t.in_training =
                  (IF DrawsOf(<<t.apn, t.sale_date>>)[1] < config.fraction_in_training
                   THEN 10 ELSE 0)

\* C12: the k-th row the split fetches consumes the k-th draw of the
\* generator seeded with random_seed, and its label is decided by that
\* draw and fraction_in_training alone: two runs over one table with one
\* seed, one fraction and one order of rows give the same labels.
C12_LabelsFollowSeedAndOrder ==
    /\ n_random = Len(draw_log)
    /\ \A k \in 1..Len(draw_log) :
          /\ draw_log[k][2] = RandomDraw(config.random_seed, k)
          /\ \A t \in transactions :
                (<<t.apn, t.sale_date>> = draw_log[k][1]
                 /\ \A h \in (k + 1)..Len(draw_log) : draw_log[h][1] # draw_log[k][1])
                => t.in_training =
                      (IF draw_log[k][2] < config.fraction_in_training THEN 10 ELSE 0)

\* C12 witness: a split that is over fetched two rows or more and labelled
\* one of them 1 and another 0.
C12_Witness ==
    /\ trans_status = "done"
    /\ Len(draw_log) >= 2
    /\ \E t1, t2 \in transactions : t1.in_training = 10 /\ t2.in_training = 0
          /\ \E k \in 1..Len(draw_log) : draw_log[k][1] = <<t2.apn, t2.sale_date>>

\* C19: every assembled transaction row carries the six fractions of land
\* of the neighborhoods row of its tract (residential, commercial,
\* industrial, schools, parks and other), each in a column of its own.
C19_SixFractionsCarried ==
    \A t \in transactions :
        \E n \in neighborhoods :
            /\ n.census_tract = t.census_tract
            /\ \E f \in [{"residential", "commercial", "industrial", "schools",
                          "parks", "other"} -> NeighborhoodColumns] :
                  /\ \A k1, k2 \in DOMAIN f : f[k1] = f[k2] => k1 = k2
                  /\ \A k \in DOMAIN f : t[f[k]] = [num |-> n[k], den |-> n.total]

(***************************************************************************)
(* Claims about main                                                       *)
(***************************************************************************)
\* C18: in every run the two code tables are fully built before any deed,
\* parcel or census record is validated; the deeds, parcels, neighborhoods
\* and census outputs are final before the join starts; the join is complete
\* before any split label is assigned; all split labels are assigned before
\* any standardization statistic is computed.
C18_StageOrdering ==
    /\ [](/\ (\/ deed_last.kind # "none"
              \/ tax_last.kind # "none"
              \/ census_row_index > 0)
             => \A t \in TableNames : codes_status[t] = "done"
          /\ trans_status # "start"
             => deed_status = "done" /\ tax_status = "done" /\ census_status = "done"
          /\ draw_log # <<>> => trans_status # "start"
          /\ standardize_status # "idle" => trans_status = "done")
    /\ [][/\ (\/ deed_last'.kind # "none"
              \/ tax_last'.kind # "none"
              \/ census_row_index' > 0)
             => codes' = codes
          /\ trans_status' # "start"
             => /\ deeds' = deeds
                /\ parcels' = parcels
                /\ neighborhoods' = neighborhoods
                /\ census' = census
          /\ draw_log' # draw_log
             => {<<r.apn, r.sale_date>> : r \in transactions'}
                   = {<<r.apn, r.sale_date>> : r \in transactions}
          /\ standardize_status' # "idle" => transactions' = transactions]_vars

\* C18 witness: a run went through every stage: records were validated, the
\* join gave a row, the row was labelled and the statistics were computed.
C18_Witness ==
    /\ standardize_status = "done"
    /\ deed_counter.accumulated > 0
    /\ tax_counter.n_retained > 0
    /\ census_counter.n_retained > 0
    /\ draw_log # <<>>
    /\ \A t \in TableNames : codes[t] # {}

\* the tract keys the Neighborhood Aggregator has counted a record under
\* in this step
TractsCounted ==
    {t \in DOMAIN parcel_count' :
        t \notin DOMAIN parcel_count \/ parcel_count'[t] # parcel_count[t]}

\* C28: for a raw parcel record accepted by both the Neighborhood
\* Aggregator and the Parcel Feature Extractor, the census_tract of the
\* parcel's feature vector, as table parcels stores it, is the tract key
\* under which the Neighborhood Aggregator counted the record, leading
\* zeros included.
C28_TractKeyConsistent ==
    [][(tax_last'.stored /\ tax_last'.neighborhood = "counted"
          /\ tax_counter' # tax_counter)
         => \A a \in DOMAIN features' \ DOMAIN features : \A t \in TractsCounted :
               IntToText(features'[a].census_tract) = t]_vars

(***************************************************************************)
(* Claims about utility.py                                                 *)
(***************************************************************************)
\* C25: for every date of the calendar, as_date of its form YYYY-MM-DD and
\* as_date of its form YYYYMMDD return the same date, whose year, month and
\* day are the fields written; as_date of the empty string raises an error.
C25_BothFormsAgree ==
    /\ (/\ as_date_call.kind = "date"
        /\ as_date_call.month \in 1..12
        /\ as_date_call.day >= 1
        /\ as_date_call.day <= DaysInMonth(as_date_call.year, as_date_call.month))
          => /\ as_date_call.from_dashed = as_date_call.from_plain
             /\ as_date_call.from_dashed =
                   [ok |-> TRUE, year |-> as_date_call.year,
                    month |-> as_date_call.month, day |-> as_date_call.day]
    /\ (as_date_call.kind = "text" /\ as_date_call.plain = <<>>)
          => ~as_date_call.from_plain.ok

\* C25 witness: as_date was given 1994-12-11 and 19941211 and returned the
\* date 11 December 1994 for both.
C25_Witness ==
    /\ as_date_call.dashed = <<"1", "9", "9", "4", "-", "1", "2", "-", "1", "1">>
    /\ as_date_call.plain = <<"1", "9", "9", "4", "1", "2", "1", "1">>
    /\ as_date_call.from_plain = PyDate(1994, 12, 11)
    /\ as_date_call.from_dashed = PyDate(1994, 12, 11)

\* the arguments of argv that are overrides: not a configuration file, and
\* key=value
IsOverride(arg) == arg \notin DOMAIN ConfigFiles /\ Len(PySplit(arg, "=")) = 2

\* the last override of key in argv
LastOverride(key) ==
    CHOOSE i \in 1..Len(argv) :
        /\ IsOverride(argv[i])
        /\ PySplit(argv[i], "=")[1] = key
        /\ \A j \in (i + 1)..Len(argv) :
              ~(IsOverride(argv[j]) /\ PySplit(argv[j], "=")[1] = key)

\* C26: in the mapping parse_invocation_arguments returns, every key given
\* as key=value maps to the value of the override, parsed as int, else
\* float, else string, whether or not a configuration file defines the key and
\* wherever the override stands; every key defined only in a configuration
\* file maps to the value of the file; with no arguments the mapping is empty.
C26_OverridesWin ==
    invocation.kind = "returned" =>
        /\ \A i \in 1..Len(argv) :
              IsOverride(argv[i]) =>
                 /\ PySplit(argv[i], "=")[1] \in ChainKeys(invocation)
                 /\ ChainGet(invocation, PySplit(argv[i], "=")[1])
                       = parse_override_no_eval(
                             PySplit(argv[i], "=")[1],
                             PySplit(argv[LastOverride(PySplit(argv[i], "=")[1])],
                                     "=")[2]).val
        /\ \A k \in ChainKeys(invocation) :
              (\A i \in 1..Len(argv) : ~(IsOverride(argv[i]) /\ PySplit(argv[i], "=")[1] = k))
                 => \E i \in 1..Len(argv) :
                       /\ argv[i] \in DOMAIN ConfigFiles
                       /\ k \in DOMAIN ConfigFiles[argv[i]]
                       /\ ChainGet(invocation, k) = ConfigFiles[argv[i]][k]
        /\ argv = <<>> => ChainKeys(invocation) = {}

====
